---- MODULE Spec2Model ----
(***************************************************************************)
(* tinysecrets: the versioned secret store (src/src/store.rs) over its     *)
(* envelope encryption (src/src/crypto.rs), with bundle export/import and  *)
(* the format migration (src/src/cli/migrate.rs).                          *)
(*                                                                         *)
(* The durable state is the three SQLite tables: secrets (the current      *)
(* rows), secret_history (the archive, in rowid order) and metadata.       *)
(*                                                                         *)
(*   SpecStore  sequential set and delete on a newly created store, one    *)
(*              whole call per step;                                       *)
(*   Spec       sequential use of every operation (set, delete, export,    *)
(*              import, migrate), on a new store or on a store that still  *)
(*              holds a legacy-format row;                                 *)
(*   SpecCrash  set and delete statement by statement, where the process   *)
(*              may die, or the next statement fail, at every point.       *)
(*   SpecRace   one set by each of two processes on one database, their    *)
(*              lookups and transactions interleaved;                      *)
(*   SpecOpen   Store::open with the right and a wrong passphrase on a     *)
(*              store in use;                                              *)
(*   SpecCrypto the functions of crypto.rs applied to envelopes and tokens *)
(*              of every kind;                                             *)
(*   SpecMigrate the migration row by row, where the run may stop at every *)
(*              point and be run again.                                    *)
(*                                                                         *)
(* Utc::now() is a clock that gives a new reading at every call.  The      *)
(* schema (schema.sql) is not among the sources: secrets is taken to be    *)
(* UNIQUE on (project, environment, key), secret_history to have no key    *)
(* beyond its rowid.  Store::get_version is not among the sources either   *)
(* and is modelled from its callers and the specification.                 *)
(***************************************************************************)
EXTENDS Integers, Sequences, FiniteSets, TLC

(***************************************************************************)
(* Bounds of the model.                                                    *)
(***************************************************************************)
\* Utc::now() readings in a run of SpecStore (each set or delete reads the clock once).
MaxStoreClock == 5
\* Utc::now() readings in a run of Spec.
MaxClock == 4
\* Utc::now() readings in a run of SpecCrash.
MaxCrashClock == 4
\* Largest LIMIT handed to Store::history.
MaxLimit == 4
\* The history command's runs: clock values up to which set and delete are called.
MaxHistoryClock == 6
\* Longest line handed to parse_line, in characters (an 'export ' prefix not counted).
MaxLineLen == 5

(***************************************************************************)
(* Program constants.                                                      *)
(***************************************************************************)
CRYPTO_VERSION == 2
LEGACY_VERSION == 1
NONCE_LEN == 12
SCHEMA_VERSION == 1

(***************************************************************************)
(* Inputs.                                                                 *)
(***************************************************************************)
Projects == {"api"}
Environments == {"prod"}
Keys == {"K1", "K2"}
\* An identity is (project, environment, key).
Identities == Projects \X Environments \X Keys
Plaintexts == {"v1", "v2"}
\* The CLI passes description None (cli/set.rs:41); import passes the bundle's.
Descriptions == {<<>>}
\* The 12 random bytes of a nonce: two possible draws.
Nonces == {[i \in 1..NONCE_LEN |-> 0], [i \in 1..NONCE_LEN |-> 1]}
\* The passphrase the store handle was opened with.
Passphrase == "correct-horse-battery"

\* Option<T>: None is the empty tuple, Some(x) the one-element tuple.
None == <<>>
Some(x) == <<x>>

\* String order used by ORDER BY (SQLite BINARY collation) on the model's strings.
StrRank(s) ==
    CASE s = "api" -> 1
      [] s = "prod" -> 1
      [] s = "K1" -> 1
      [] s = "K2" -> 2
      [] OTHER -> 0

(***************************************************************************)
(* crypto.rs                                                               *)
(***************************************************************************)
\* MasterKey::derive: scrypt(passphrase, salt), deterministic in both.
Derive(passphrase, salt) == [pass |-> passphrase, salt |-> salt]

\* ChaCha20-Poly1305 seal: ciphertext || tag, opened only by the same key and nonce.
Seal(key, nonce, plaintext) == <<[key |-> key, nonce |-> nonce, pt |-> plaintext]>>

\* BASE64.encode / BASE64.decode: text wrapping of a byte string.
B64Encode(bytes) == [b64 |-> bytes]
B64Valid(text) == DOMAIN text = {"b64"}
B64Decode(text) == text.b64

Ok(v) == [ok |-> TRUE, val |-> v]
Err(e) == [ok |-> FALSE, err |-> e]

\* Mutant: the plaintext goes out as it came in.
encrypt_plain(plaintext, master_key, nonce) == [raw |-> plaintext]

\* Mutant: the output is tagged with the legacy version byte.
encrypt_legacyTag(plaintext, master_key, nonce) ==
    B64Encode(<<LEGACY_VERSION>> \o nonce \o Seal(master_key, nonce, plaintext))

\* encrypt: version || nonce || ciphertext, base64; the nonce is the random draw.
encrypt(plaintext, master_key, nonce) ==
    B64Encode(<<CRYPTO_VERSION>> \o nonce \o Seal(master_key, nonce, plaintext))

\* String::from_utf8: every byte string of the model is text, except this one.
NotUtf8 == "0xFF 0xFE"
Utf8Valid(bytes) == bytes # NotUtf8

\* Mutant: the cipher returns the plaintext without checking the tag.
decrypt_v2_unauthenticated(data, master_key) ==
    IF Len(data) < NONCE_LEN
    THEN Err("Ciphertext too short")
    ELSE IF Len(data) = NONCE_LEN
         THEN Ok("")
         ELSE Ok(data[NONCE_LEN + 1].pt)

\* decrypt_v2 on data[1..]: nonce = first 12 bytes, the rest is the sealed text,
\* which opens only if it is what this key and nonce seal; then String::from_utf8.
decrypt_v2(data, master_key) ==
    IF Len(data) < NONCE_LEN
    THEN Err("Ciphertext too short")
    ELSE LET nonce == SubSeq(data, 1, NONCE_LEN)
             ciphertext == SubSeq(data, NONCE_LEN + 1, Len(data))
         IN IF /\ Len(ciphertext) = 1
               /\ ciphertext = Seal(master_key, nonce, ciphertext[1].pt)
            THEN IF Utf8Valid(ciphertext[1].pt)
                 THEN Ok(ciphertext[1].pt)
                 ELSE Err("Decrypted data is not valid UTF-8")
            ELSE Err("Decryption failed - invalid key or corrupted data")

\* The age header "age-encryption.org", one model byte.
AGE_HEADER == 97
\* An age file: the header, then the body with its recipient stanza ("scrypt"
\* for a passphrase) and the payload.
AgeFile(kind, passphrase, plaintext) ==
    <<AGE_HEADER, [kind |-> kind, agepass |-> passphrase, pt |-> plaintext]>>
\* An age passphrase-encrypted blob of plaintext.
AgeBlob(passphrase, plaintext) == AgeFile("scrypt", passphrase, plaintext)

is_age_format(data) == Len(data) >= 1 /\ data[1] = AGE_HEADER

\* decrypt_legacy: age::Decryptor over the whole base64-decoded text.
decrypt_legacy(ciphertext, passphrase) ==
    IF ~B64Valid(ciphertext)
    THEN Err("Failed to decode base64 ciphertext")
    ELSE LET encrypted == B64Decode(ciphertext)
         IN IF ~(Len(encrypted) = 2 /\ encrypted[1] = AGE_HEADER)
            THEN Err("Failed to create decryptor")
            ELSE IF encrypted[2].kind # "scrypt"
                 THEN Err("Expected passphrase-encrypted data")
                 ELSE IF encrypted[2].agepass # passphrase
                      THEN Err("Decryption failed")
                      ELSE IF ~Utf8Valid(encrypted[2].pt)
                           THEN Err("Decrypted data is not valid UTF-8")
                           ELSE Ok(encrypted[2].pt)

\* Mutant: whatever is not the current format is handed to the legacy path.
Dispatch_legacyFallback(data) ==
    IF data[1] = CRYPTO_VERSION THEN "current" ELSE "legacy"

\* The match on data[0]: which arm of decrypt takes the envelope.
Dispatch(data) ==
    CASE data[1] = CRYPTO_VERSION -> "current"
      [] data[1] = LEGACY_VERSION -> "legacy"
      [] data[1] \notin {CRYPTO_VERSION, LEGACY_VERSION} /\ is_age_format(data) -> "legacy"
      [] OTHER -> "unknown"

\* decrypt: base64-decode, refuse the empty text, dispatch on the first byte.
decrypt(ciphertext, master_key, passphrase) ==
    IF ~B64Valid(ciphertext)
    THEN Err("Failed to decode base64 ciphertext")
    ELSE LET data == B64Decode(ciphertext)
         IN IF data = <<>>
            THEN Err("Empty ciphertext")
            ELSE CASE Dispatch(data) = "current" ->
                        decrypt_v2(SubSeq(data, 2, Len(data)), master_key)
                   [] Dispatch(data) = "legacy" ->
                        decrypt_legacy(ciphertext, passphrase)
                   [] OTHER -> Err("Unknown encryption format version")

\* derive_verification: the fixed plaintext, age-encrypted under the passphrase.
VERIFICATION_PLAINTEXT == "tinysecrets-verification-v1"
derive_verification(passphrase) ==
    B64Encode(AgeBlob(passphrase, VERIFICATION_PLAINTEXT))

\* Mutant: the decrypted bytes are not compared with the fixed plaintext.
verify_passphrase_anyPlaintext(passphrase, verification) ==
    /\ B64Valid(verification)
    /\ LET encrypted == B64Decode(verification)
       IN /\ Len(encrypted) = 2
          /\ encrypted[1] = AGE_HEADER
          /\ encrypted[2].kind = "scrypt"
          /\ encrypted[2].agepass = passphrase

\* verify_passphrase: every failure on the way is a plain false.
verify_passphrase(passphrase, verification) ==
    /\ B64Valid(verification)
    /\ LET encrypted == B64Decode(verification)
       IN /\ Len(encrypted) = 2
          /\ encrypted[1] = AGE_HEADER
          /\ encrypted[2].kind = "scrypt"
          /\ encrypted[2].agepass = passphrase
          /\ encrypted[2].pt = VERIFICATION_PLAINTEXT

(***************************************************************************)
(* store.rs: the tables                                                    *)
(***************************************************************************)
VARIABLES
    secrets,    \* table secrets: the set of current rows
    history,    \* table secret_history: its rows in insertion (rowid) order
    metadata,   \* table metadata: key -> value
    clock,      \* the next reading of Utc::now()
    pc,         \* where the running set/delete call stands ("idle": none runs)
    txn,        \* the running call: its locals and the open transaction's tables
    last,       \* the last finished call and what it returned
    bundle,     \* the bundle file the last export wrote (None before any)
    lineage,    \* ghost: per identity, the plaintexts set since it was last absent
    committed,  \* ghost: every (identity, envelope, version) committed as current
    procs       \* the processes that run set side by side: where each one stands

vars == <<secrets, history, metadata, clock, pc, txn, last, bundle, lineage, committed,
          procs>>

\* The key the store handle encrypts and decrypts with (store.rs:131, 204).
StoreSalt == "salt"
SessionKey == Derive(Passphrase, StoreSalt)

\* SELECT ... FROM secrets WHERE project = ?1 AND environment = ?2 AND key = ?3
SelectSecret(tbl, id) == {r \in tbl : r.id = id}

\* Mutant: the archived row is tagged with the next version instead of its own.
ArchiveRow_nextVersion(r, deleted_at) ==
    [id |-> r.id, encrypted_value |-> r.encrypted_value, version |-> r.version + 1,
     created_at |-> r.updated_at, deleted_at |-> deleted_at]

\* Mutant: the statement forgets the ?4 column, deleted_at stays NULL.
ArchiveRow_noTombstone(r, deleted_at) ==
    [id |-> r.id, encrypted_value |-> r.encrypted_value, version |-> r.version,
     created_at |-> r.updated_at, deleted_at |-> <<>>]

\* The history row INSERT ... SELECT builds from a current row.
ArchiveRow(r, deleted_at) ==
    [id |-> r.id, encrypted_value |-> r.encrypted_value, version |-> r.version,
     created_at |-> r.updated_at, deleted_at |-> deleted_at]

RECURSIVE SetToSeq(_)
SetToSeq(S) ==
    IF S = {} THEN <<>>
    ELSE LET x == CHOOSE y \in S : TRUE IN <<x>> \o SetToSeq(S \ {x})

\* Mutant: only a superseded row is archived, a deleted one is not.
ArchiveInsert_updatesOnly(tbl, hist, id, deleted_at) ==
    IF deleted_at = <<>>
    THEN hist \o SetToSeq({[id |-> r.id, encrypted_value |-> r.encrypted_value,
                            version |-> r.version, created_at |-> r.updated_at,
                            deleted_at |-> deleted_at] : r \in {x \in tbl : x.id = id}})
    ELSE hist

\* Mutant: INSERT OR REPLACE on the key (identity, version).
ArchiveInsert_replace(tbl, hist, id, deleted_at) ==
    LET new == {[id |-> r.id, encrypted_value |-> r.encrypted_value,
                 version |-> r.version, created_at |-> r.updated_at,
                 deleted_at |-> deleted_at] : r \in {x \in tbl : x.id = id}}
    IN SelectSeq(hist, LAMBDA h : \A n \in new : h.id # n.id \/ h.version # n.version)
       \o SetToSeq(new)

\* INSERT INTO secret_history ... SELECT ... FROM secrets WHERE identity
ArchiveInsert(tbl, hist, id, deleted_at) ==
    hist \o SetToSeq({ArchiveRow(r, deleted_at) : r \in SelectSecret(tbl, id)})

\* Mutant: the UPDATE leaves encrypted_value out of its SET list.
UpdateSecret_keepEnvelope(tbl, id, enc, description, now, version) ==
    {IF r.id = id
     THEN [r EXCEPT !.description = description, !.updated_at = now,
                    !.version = version]
     ELSE r : r \in tbl}

\* UPDATE secrets SET encrypted_value, description, updated_at, version WHERE identity
\* Mutant: the UPDATE keeps the old description when none is supplied.
UpdateSecret_keepDescription(tbl, id, enc, description, now, version) ==
    {IF r.id = id
     THEN [r EXCEPT !.encrypted_value = enc,
                    !.description = IF description = None THEN @ ELSE description,
                    !.updated_at = now, !.version = version]
     ELSE r : r \in tbl}

UpdateSecret(tbl, id, enc, description, now, version) ==
    {IF r.id = id
     THEN [r EXCEPT !.encrypted_value = enc, !.description = description,
                    !.updated_at = now, !.version = version]
     ELSE r : r \in tbl}

\* Mutant: a recreated identity continues the version numbers of its history.
NewRow_continue(id, enc, description, now) ==
    [id |-> id, encrypted_value |-> enc, description |-> description,
     created_at |-> now, updated_at |-> now,
     version |-> 1 + Cardinality({i \in 1..Len(history) : history[i].id = id})]

\* The row INSERT INTO secrets builds: created_at = updated_at = now, version 1.
NewRow(id, enc, description, now) ==
    [id |-> id, encrypted_value |-> enc, description |-> description,
     created_at |-> now, updated_at |-> now, version |-> 1]

\* Mutant: the table has no UNIQUE key, every row is admitted.
InsertAllowed_noKey(tbl, row) == row.id \in Identities

\* UNIQUE(project, environment, key) on secrets: may this row be inserted?
InsertAllowed(tbl, row) == SelectSecret(tbl, row.id) = {}

\* Mutant: the WHERE clause leaves the key out.
DeleteSecret_wholeEnvironment(tbl, id) ==
    {r \in tbl : r.id[1] # id[1] \/ r.id[2] # id[2]}

\* DELETE FROM secrets WHERE identity
DeleteSecret(tbl, id) == {r \in tbl : r.id # id}

(***************************************************************************)
(* store.rs: the read queries                                              *)
(***************************************************************************)
\* Store::get: None when no row, else the decrypted value (or the decrypt error).
get(tbl, id) ==
    IF SelectSecret(tbl, id) = {}
    THEN Ok(None)
    ELSE LET r == CHOOSE r \in SelectSecret(tbl, id) : TRUE
             d == decrypt(r.encrypted_value, SessionKey, Passphrase)
         IN IF d.ok THEN Ok(Some(d.val)) ELSE d

\* Is id1 before id2 in ORDER BY project, environment, key?
IdLess(id1, id2) ==
    \/ StrRank(id1[1]) < StrRank(id2[1])
    \/ /\ id1[1] = id2[1]
       /\ \/ StrRank(id1[2]) < StrRank(id2[2])
          \/ id1[2] = id2[2] /\ StrRank(id1[3]) < StrRank(id2[3])

RECURSIVE SortRows(_)
SortRows(S) ==
    IF S = {} THEN <<>>
    ELSE LET x == CHOOSE y \in S : \A z \in S : ~IdLess(z.id, y.id)
         IN <<x>> \o SortRows(S \ {x})

\* Store::list: the rows matching the optional filters, ordered by identity.
list(tbl, project, environment) ==
    SortRows({r \in tbl : /\ project = None \/ r.id[1] = project[1]
                          /\ environment = None \/ r.id[2] = environment[1]})

\* The indices of the identity's rows in secret_history.
HistoryIdx(hist, id) == {i \in 1..Len(hist) : hist[i].id = id}

\* Store::history: every answer SELECT ... ORDER BY version DESC LIMIT ?4 may give
\* (SQLite leaves the order of rows with equal version open).
history_results(hist, id, limit) ==
    LET idx == HistoryIdx(hist, id)
        n == IF limit < Cardinality(idx) THEN limit ELSE Cardinality(idx)
    IN {[k \in 1..n |-> hist[p[k]]] :
          p \in {q \in [1..n -> idx] :
                   /\ \A a, b \in 1..n : a < b =>
                        /\ q[a] # q[b]
                        /\ hist[q[a]].version >= hist[q[b]].version
                   /\ \A j \in idx : (\A a \in 1..n : q[a] # j) =>
                        \A a \in 1..n : hist[q[a]].version >= hist[j].version}}

\* Store::get_version (called by cli/get.rs:12 and cli/history.rs:79): the current
\* entry if its version matches, else the history entry of that identity and
\* version; every answer the lookup may give when several entries match.
get_version_results(tbl, hist, id, version) ==
    LET cur == {r \in SelectSecret(tbl, id) : r.version = version}
        old == {i \in HistoryIdx(hist, id) : hist[i].version = version}
        value(enc) == LET d == decrypt(enc, SessionKey, Passphrase)
                      IN IF d.ok THEN Ok(Some(d.val)) ELSE d
    IN IF cur # {} THEN {value(r.encrypted_value) : r \in cur}
       ELSE IF old # {} THEN {value(hist[i].encrypted_value) : i \in old}
       ELSE {Ok(None)}

(***************************************************************************)
(* store.rs: set and delete, one whole call per step (Spec)                *)
(***************************************************************************)
NoTxn == [op |-> "none"]
\* No process runs beside the store handle.
Procs == {"p1", "p2"}
NoProcs == [p \in Procs |-> [pc |-> "ready"]]

\* A row written by the age-only releases: an untagged age blob, base64.
LegacyEnvelope(plaintext) == B64Encode(AgeBlob(Passphrase, plaintext))
LegacyRow ==
    [id |-> <<"api", "prod", "K1">>, encrypted_value |-> LegacyEnvelope("v1"),
     description |-> None, created_at |-> 0, updated_at |-> 0, version |-> 1]

\* The metadata Store::init writes (store.rs:78-86).
InitMetadata ==
    [k \in {"passphrase_verification", "schema_version"} |->
        IF k = "schema_version" THEN SCHEMA_VERSION
        ELSE derive_verification(Passphrase)]
\* The metadata cli/migrate.rs expects: with the key 'encryption_salt'.
SaltedMetadata ==
    [k \in {"passphrase_verification", "schema_version", "encryption_salt"} |->
        CASE k = "schema_version" -> SCHEMA_VERSION
          [] k = "encryption_salt" -> B64Encode(StoreSalt)
          [] OTHER -> derive_verification(Passphrase)]

\* Either the store Store::init has just created, or a store of an earlier
\* release opened again: one age-format row, and the salt migrate reads.
Init ==
    /\ \E upgraded \in BOOLEAN :
          /\ secrets = IF upgraded THEN {LegacyRow} ELSE {}
          /\ metadata = IF upgraded THEN SaltedMetadata ELSE InitMetadata
          /\ lineage = [id \in Identities |->
                          IF upgraded /\ id = LegacyRow.id THEN <<"v1">> ELSE <<>>]
    /\ committed = {[id |-> r.id, encrypted_value |-> r.encrypted_value,
                     version |-> r.version] : r \in secrets}
    /\ history = <<>>
    /\ clock = 1
    /\ pc = "idle"
    /\ txn = NoTxn
    /\ last = [op |-> "init"]
    /\ bundle = None
    /\ procs = NoProcs

\* The version Store::set reads of an existing row (store.rs:135-143).
ExistingVersion(tbl, id) ==
    IF SelectSecret(tbl, id) = {} THEN None
    ELSE Some((CHOOSE r \in SelectSecret(tbl, id) : TRUE).version)

\* The statements of Store::set's transaction on the tables db (store.rs:147-184).
SetStatements(db, id, enc, description, now, existing) ==
    IF existing # None
    THEN [secrets |-> UpdateSecret(db.secrets, id, enc, description, now,
                                   existing[1] + 1),
          history |-> ArchiveInsert(db.secrets, db.history, id, None)]
    ELSE [secrets |-> db.secrets \cup {NewRow(id, enc, description, now)},
          history |-> db.history]

\* Ghost: what a commit of the identity's current row adds to committed.
CommittedNow(tbl, id) ==
    {[id |-> r.id, encrypted_value |-> r.encrypted_value, version |-> r.version] :
        r \in SelectSecret(tbl, id)}

\* Store::set, the whole call.
Set(id, value, description, nonce) ==
    /\ pc = "idle"
    /\ LET enc == encrypt(value, SessionKey, nonce)
           db == SetStatements([secrets |-> secrets, history |-> history], id, enc,
                               description, clock, ExistingVersion(secrets, id))
       IN /\ secrets' = db.secrets
          /\ history' = db.history
          /\ committed' = committed \cup CommittedNow(db.secrets, id)
    /\ clock' = clock + 1
    /\ last' = [op |-> "set", id |-> id, ret |-> Ok(<<>>)]
    /\ lineage' = [lineage EXCEPT ![id] = Append(@, value)]
    /\ UNCHANGED <<metadata, pc, txn, bundle, procs>>

\* Store::delete, the whole call: archive with deleted_at = now, then remove.
Delete(id) ==
    /\ pc = "idle"
    /\ history' = ArchiveInsert(secrets, history, id, Some(clock))
    /\ secrets' = DeleteSecret(secrets, id)
    /\ clock' = clock + 1
    /\ last' = [op |-> "delete", id |-> id,
                ret |-> Ok(Cardinality(secrets) - Cardinality(DeleteSecret(secrets, id)) > 0)]
    /\ lineage' = [lineage EXCEPT ![id] = <<>>]
    /\ UNCHANGED <<metadata, pc, txn, bundle, committed, procs>>

\* Mutant: the rows are listed without the environment filter.
export_noEnvFilter(tbl, meta, project, environment, now) ==
    LET entries == list(tbl, Some(project), None)
    IN [version |-> 1, project |-> project, environment |-> environment,
        passphrase_verification |-> meta["passphrase_verification"],
        exported_at |-> now,
        secrets |-> [i \in 1..Len(entries) |->
            [key |-> entries[i].id[3],
             encrypted_value |->
                (CHOOSE r \in SelectSecret(tbl, entries[i].id) : TRUE).encrypted_value,
             description |-> entries[i].description,
             version |-> entries[i].version]]]

\* Store::export: the current rows of (project, environment) in list order,
\* their envelopes as stored, and the store's verification token.
export(tbl, meta, project, environment, now) ==
    LET entries == list(tbl, Some(project), Some(environment))
    IN [version |-> 1, project |-> project, environment |-> environment,
        passphrase_verification |-> meta["passphrase_verification"],
        exported_at |-> now,
        secrets |-> [i \in 1..Len(entries) |->
            [key |-> entries[i].id[3],
             encrypted_value |->
                (CHOOSE r \in SelectSecret(tbl, entries[i].id) : TRUE).encrypted_value,
             description |-> entries[i].description,
             version |-> entries[i].version]]]

\* cli/export.rs: export, and write the bundle to the output file.
Export(project, environment) ==
    /\ pc = "idle"
    /\ clock < MaxClock
    /\ bundle' = Some(export(secrets, metadata, project, environment, clock))
    /\ clock' = clock + 1
    /\ last' = [op |-> "export", project |-> project, environment |-> environment,
                ret |-> Ok(<<>>)]
    /\ UNCHANGED <<secrets, history, metadata, pc, txn, lineage, committed, procs>>

\* A bundle written by a store that has another passphrase.
OtherPassphrase == "other"
ForeignBundle ==
    [version |-> 1, project |-> "api", environment |-> "prod",
     passphrase_verification |-> derive_verification(OtherPassphrase),
     exported_at |-> 0,
     secrets |-> <<[key |-> "K1",
                    encrypted_value |->
                        encrypt("v1", Derive(OtherPassphrase, StoreSalt),
                                [i \in 1..NONCE_LEN |-> 0]),
                    description |-> None, version |-> 1]>>]

\* Mutant: import trusts the bundle, it stores the bundled envelope and the
\* bundled version as they are.
RECURSIVE ImportSecrets_asBundled(_, _, _)
ImportSecrets_asBundled(st, b, nonces) ==
    IF st.imported = Len(b.secrets)
    THEN [st EXCEPT !.ret = Ok(st.imported)]
    ELSE LET secret == b.secrets[st.imported + 1]
             id == <<b.project, b.environment, secret.key>>
             d == decrypt(secret.encrypted_value, SessionKey, Passphrase)
         IN IF ~d.ok
            THEN [st EXCEPT !.ret = d, !.decrypted = @ + 1]
            ELSE LET db == SetStatements(
                             [secrets |-> st.secrets, history |-> st.history], id,
                             secret.encrypted_value, secret.description, st.clock,
                             IF SelectSecret(st.secrets, id) = {} THEN None
                             ELSE Some(secret.version - 1))
                     tbl == {IF r.id = id THEN [r EXCEPT !.version = secret.version]
                             ELSE r : r \in db.secrets}
                 IN ImportSecrets_asBundled(
                      [secrets |-> tbl, history |-> db.history,
                       clock |-> st.clock + 1,
                       lineage |-> [st.lineage EXCEPT ![id] = Append(@, d.val)],
                       committed |-> st.committed \cup CommittedNow(tbl, id),
                       imported |-> st.imported + 1,
                       decrypted |-> st.decrypted + 1, ret |-> st.ret],
                      b, nonces)

\* Store::import's loop from secret number st.imported + 1 on: decrypt, then set
\* (a transaction of its own per secret); the first error ends the call.
\* Ghost: st.decrypted counts the calls of crypto::decrypt.
RECURSIVE ImportSecrets(_, _, _)
ImportSecrets(st, b, nonces) ==
    IF st.imported = Len(b.secrets)
    THEN [st EXCEPT !.ret = Ok(st.imported)]
    ELSE LET secret == b.secrets[st.imported + 1]
             id == <<b.project, b.environment, secret.key>>
             d == decrypt(secret.encrypted_value, SessionKey, Passphrase)
         IN IF ~d.ok
            THEN [st EXCEPT !.ret = d, !.decrypted = @ + 1]
            ELSE LET enc == encrypt(d.val, SessionKey, nonces[st.imported + 1])
                     db == SetStatements(
                             [secrets |-> st.secrets, history |-> st.history], id,
                             enc, secret.description, st.clock,
                             ExistingVersion(st.secrets, id))
                 IN ImportSecrets(
                      [secrets |-> db.secrets, history |-> db.history,
                       clock |-> st.clock + 1,
                       lineage |-> [st.lineage EXCEPT ![id] = Append(@, d.val)],
                       committed |-> st.committed \cup CommittedNow(db.secrets, id),
                       imported |-> st.imported + 1,
                       decrypted |-> st.decrypted + 1, ret |-> st.ret],
                      b, nonces)

\* Mutant: import does not verify the bundle's token.
Import_noVerify(b, nonces) ==
    /\ pc = "idle"
    /\ clock + Len(b.secrets) <= MaxClock
    /\ LET st == ImportSecrets(
                   [secrets |-> secrets, history |-> history, clock |-> clock,
                    lineage |-> lineage, committed |-> committed,
                    imported |-> 0, decrypted |-> 0, ret |-> Ok(0)], b, nonces)
       IN /\ secrets' = st.secrets
          /\ history' = st.history
          /\ clock' = st.clock
          /\ lineage' = st.lineage
          /\ committed' = st.committed
          /\ last' = [op |-> "import", ret |-> st.ret, decrypted |-> st.decrypted]
    /\ UNCHANGED <<metadata, pc, txn, bundle, procs>>

\* Store::import, the whole call: verify the bundle's token first.
Import(b, nonces) ==
    /\ pc = "idle"
    /\ clock + Len(b.secrets) <= MaxClock
    /\ IF ~verify_passphrase(Passphrase, b.passphrase_verification)
       THEN /\ last' = [op |-> "import",
                        ret |-> Err("Bundle was encrypted with a different passphrase"),
                        decrypted |-> 0]
            /\ UNCHANGED <<secrets, history, clock, lineage, committed>>
       ELSE LET st == ImportSecrets(
                        [secrets |-> secrets, history |-> history, clock |-> clock,
                         lineage |-> lineage, committed |-> committed,
                         imported |-> 0, decrypted |-> 0, ret |-> Ok(0)],
                        b, nonces)
            IN /\ secrets' = st.secrets
               /\ history' = st.history
               /\ clock' = st.clock
               /\ lineage' = st.lineage
               /\ committed' = st.committed
               /\ last' = [op |-> "import", ret |-> st.ret,
                            decrypted |-> st.decrypted]
    /\ UNCHANGED <<metadata, pc, txn, bundle, procs>>

\* The bundle files at hand: the last export, and the foreign one.
BundleFiles == (IF bundle = None THEN {} ELSE {bundle[1]}) \cup {ForeignBundle}

\* The rows whose envelope does not start with the tag byte 2 (migrate.rs:60).
NotCurrentFormat(tbl) ==
    {r \in tbl : ~(/\ B64Valid(r.encrypted_value)
                   /\ B64Decode(r.encrypted_value) # <<>>
                   /\ B64Decode(r.encrypted_value)[1] = 2)}

\* Mutant: the UPDATE has no WHERE clause.
UpdateEnvelope_everyRow(tbl, row, enc) ==
    {[r EXCEPT !.encrypted_value = enc] : r \in tbl}

\* Mutant: the UPDATE also sets version = version + 1.
UpdateEnvelope_bumpVersion(tbl, row, enc) ==
    {IF r = row THEN [r EXCEPT !.encrypted_value = enc, !.version = @ + 1] ELSE r :
        r \in tbl}

\* Mutant: the UPDATE writes the envelope cut behind its nonce.
UpdateEnvelope_cut(tbl, row, enc) ==
    {IF r = row
     THEN [r EXCEPT !.encrypted_value =
                       B64Encode(SubSeq(B64Decode(enc), 1, NONCE_LEN + 1))]
     ELSE r : r \in tbl}

\* UPDATE secrets SET encrypted_value = ?1 WHERE id = ?2: the row that has the
\* rowid read before, whatever it holds now (a row keeps its rowid under
\* UPDATE, so the identity stands for it).
UpdateEnvelope(tbl, row, enc) ==
    {IF r.id = row.id THEN [r EXCEPT !.encrypted_value = enc] ELSE r : r \in tbl}

\* Mutant: the loop has no test for the tag 2, every row is re-encrypted
\* (under a nonce other than the one it had).
RECURSIVE MigrateRows_noSkip(_, _, _, _, _)
MigrateRows_noSkip(tbl, rows, master_key, nonces, counts) ==
    IF rows = <<>>
    THEN [secrets |-> tbl, ret |-> Ok(counts)]
    ELSE LET r == Head(rows)
             d == decrypt(r.encrypted_value, master_key, Passphrase)
         IN IF ~d.ok
            THEN [secrets |-> tbl, ret |-> d]
            ELSE MigrateRows_noSkip(
                   UpdateEnvelope(tbl, r,
                       encrypt(d.val, master_key,
                               [i \in 1..NONCE_LEN |->
                                   IF B64Decode(r.encrypted_value)[1] = 2
                                   THEN 1 - B64Decode(r.encrypted_value)[i + 1]
                                   ELSE 0])),
                   Tail(rows), master_key, nonces,
                   [counts EXCEPT !.migrated = @ + 1])

\* cli/migrate.rs, the loop over the rows read: skip tag 2, else decrypt,
\* re-encrypt and write back (autocommit); the first error ends the call.
RECURSIVE MigrateRows(_, _, _, _, _)
MigrateRows(tbl, rows, master_key, nonces, counts) ==
    IF rows = <<>>
    THEN [secrets |-> tbl, ret |-> Ok(counts)]
    ELSE LET r == Head(rows)
         IN IF ~B64Valid(r.encrypted_value)
            THEN [secrets |-> tbl, ret |-> Err("Failed to decode base64")]
            ELSE IF B64Decode(r.encrypted_value) # <<>>
                    /\ B64Decode(r.encrypted_value)[1] = 2
                 THEN MigrateRows(tbl, Tail(rows), master_key, nonces,
                                  [counts EXCEPT !.already_new = @ + 1])
                 ELSE LET d == decrypt(r.encrypted_value, master_key, Passphrase)
                      IN IF ~d.ok
                         THEN [secrets |-> tbl, ret |-> d]
                         ELSE MigrateRows(
                                UpdateEnvelope(tbl, r,
                                    encrypt(d.val, master_key,
                                            nonces[counts.migrated + 1])),
                                Tail(rows), master_key, nonces,
                                [counts EXCEPT !.migrated = @ + 1])

\* The orders in which SELECT ... FROM secrets (no ORDER BY) may give the rows.
RowOrders(tbl) ==
    {q \in [1..Cardinality(tbl) -> tbl] :
        \A a, b \in 1..Cardinality(tbl) : a # b => q[a] # q[b]}

\* cli/migrate.rs run, the whole call: the salt is read from metadata first.
Migrate(rows, nonces) ==
    /\ pc = "idle"
    /\ IF "encryption_salt" \notin DOMAIN metadata
       THEN /\ last' = [op |-> "migrate", ret |-> Err("no encryption_salt")]
            /\ secrets' = secrets
       ELSE LET master_key ==
                    Derive(Passphrase, B64Decode(metadata["encryption_salt"]))
                m == MigrateRows(secrets, rows, master_key, nonces,
                                 [migrated |-> 0, already_new |-> 0])
            IN /\ secrets' = m.secrets
               /\ last' = [op |-> "migrate", ret |-> m.ret]
    /\ UNCHANGED <<history, metadata, clock, pc, txn, bundle, lineage, committed, procs>>

\* Sequential use of set and delete on the store Store::init created.
FreshInit == Init /\ secrets = {}

NextStore ==
    \/ \E id \in Identities, value \in Plaintexts, description \in Descriptions,
          nonce \in Nonces : clock < MaxStoreClock /\ Set(id, value, description, nonce)
    \/ \E id \in Identities : clock < MaxStoreClock /\ Delete(id)

SpecStore == FreshInit /\ [][NextStore]_vars

\* Sequential use of every operation.
Next ==
    \/ \E id \in Identities, value \in Plaintexts, description \in Descriptions,
          nonce \in Nonces : clock < MaxClock /\ Set(id, value, description, nonce)
    \/ \E id \in Identities : clock < MaxClock /\ Delete(id)
    \/ \E project \in Projects, environment \in Environments :
          Export(project, environment)
    \/ \E b \in BundleFiles : \E nonces \in [1..Len(b.secrets) -> Nonces] :
          Import(b, nonces)
    \/ \E rows \in RowOrders(secrets) :
          \E nonces \in [1..Cardinality(NotCurrentFormat(secrets)) -> Nonces] :
             Migrate(rows, nonces)

Spec == Init /\ [][Next]_vars

(***************************************************************************)
(* store.rs: set and delete, statement by statement (SpecCrash)            *)
(***************************************************************************)
\* Store::set up to unchecked_transaction(): encrypt, read the clock, look the
\* row up (.ok() turns a failed lookup into None), open the transaction.
SetBegin(id, value, description, nonce, lookup_ok) ==
    /\ pc = "idle"
    /\ clock < MaxCrashClock
    /\ txn' = [op |-> "set", id |-> id, value |-> value,
               enc |-> encrypt(value, SessionKey, nonce),
               description |-> description, now |-> clock,
               existing |-> IF lookup_ok THEN ExistingVersion(secrets, id) ELSE None,
               db |-> [secrets |-> secrets, history |-> history]]
    /\ clock' = clock + 1
    /\ pc' = "set_begun"
    /\ UNCHANGED <<secrets, history, metadata, last, bundle, lineage, committed, procs>>

\* Mutant: the archive statement runs on the connection, outside the transaction.
SetArchive_autocommit ==
    /\ pc = "set_begun"
    /\ txn.existing # None
    /\ history' = ArchiveInsert(secrets, history, txn.id, None)
    /\ txn' = [txn EXCEPT !.db.history = history']
    /\ pc' = "set_archived"
    /\ UNCHANGED <<secrets, metadata, clock, last, bundle, lineage, committed, procs>>

\* tx.execute(INSERT INTO secret_history ... SELECT), inside the transaction.
SetArchive ==
    /\ pc = "set_begun"
    /\ txn.existing # None
    /\ txn' = [txn EXCEPT !.db.history =
                 ArchiveInsert(txn.db.secrets, txn.db.history, txn.id, None)]
    /\ pc' = "set_archived"
    /\ UNCHANGED <<secrets, history, metadata, clock, last, bundle, lineage, committed, procs>>

\* tx.execute(UPDATE secrets ...), inside the transaction.
SetUpdate ==
    /\ pc = "set_archived"
    /\ txn' = [txn EXCEPT !.db.secrets =
                 UpdateSecret(txn.db.secrets, txn.id, txn.enc, txn.description,
                              txn.now, txn.existing[1] + 1)]
    /\ pc' = "set_written"
    /\ UNCHANGED <<secrets, history, metadata, clock, last, bundle, lineage, committed, procs>>

\* tx.execute(INSERT INTO secrets ...), inside the transaction; a row the UNIQUE
\* constraint refuses makes the statement fail, and the dropped transaction rolls back.
SetInsert ==
    /\ pc = "set_begun"
    /\ txn.existing = None
    /\ LET row == NewRow(txn.id, txn.enc, txn.description, txn.now)
       IN IF InsertAllowed(txn.db.secrets, row)
          THEN /\ txn' = [txn EXCEPT !.db.secrets = @ \cup {row}]
               /\ pc' = "set_written"
               /\ last' = last
          ELSE /\ txn' = NoTxn
               /\ pc' = "idle"
               /\ last' = [op |-> "set", id |-> txn.id, ret |-> Err("constraint")]
    /\ UNCHANGED <<secrets, history, metadata, clock, bundle, lineage, committed, procs>>

\* tx.commit(): the transaction's tables become the durable ones, in one step.
SetCommit ==
    /\ pc = "set_written"
    /\ secrets' = txn.db.secrets
    /\ history' = txn.db.history
    /\ committed' = committed \cup CommittedNow(txn.db.secrets, txn.id)
    /\ lineage' = [lineage EXCEPT ![txn.id] = Append(@, txn.value)]
    /\ last' = [op |-> "set", id |-> txn.id, ret |-> Ok(<<>>)]
    /\ pc' = "idle"
    /\ txn' = NoTxn
    /\ UNCHANGED <<metadata, clock, bundle, procs>>

\* Store::delete's first statement, on the connection itself: it autocommits.
DeleteArchive(id) ==
    /\ pc = "idle"
    /\ clock < MaxCrashClock
    /\ history' = ArchiveInsert(secrets, history, id, Some(clock))
    /\ txn' = [op |-> "delete", id |-> id, now |-> clock]
    /\ clock' = clock + 1
    /\ pc' = "delete_archived"
    /\ UNCHANGED <<secrets, metadata, last, bundle, lineage, committed, procs>>

\* Store::delete's second statement, autocommitted too; returns deleted > 0.
DeleteRemove ==
    /\ pc = "delete_archived"
    /\ secrets' = DeleteSecret(secrets, txn.id)
    /\ last' = [op |-> "delete", id |-> txn.id,
                ret |-> Ok(Cardinality(secrets)
                           - Cardinality(DeleteSecret(secrets, txn.id)) > 0)]
    /\ lineage' = [lineage EXCEPT ![txn.id] = <<>>]
    /\ pc' = "idle"
    /\ txn' = NoTxn
    /\ UNCHANGED <<history, metadata, clock, bundle, committed, procs>>

\* The process dies, or the next statement fails and `?` returns: an open
\* transaction is dropped (rolled back); what autocommitted stays.
Crash ==
    /\ pc # "idle"
    /\ last' = [op |-> txn.op, id |-> txn.id, ret |-> Err("crashed")]
    /\ pc' = "idle"
    /\ txn' = NoTxn
    /\ UNCHANGED <<secrets, history, metadata, clock, bundle, lineage, committed, procs>>

NextCrash ==
    \/ \E id \in Identities, value \in Plaintexts, description \in Descriptions,
          nonce \in Nonces, lookup_ok \in BOOLEAN :
            SetBegin(id, value, description, nonce, lookup_ok)
    \/ SetArchive
    \/ SetUpdate
    \/ SetInsert
    \/ SetCommit
    \/ \E id \in Identities : DeleteArchive(id)
    \/ DeleteRemove
    \/ Crash

SpecCrash == FreshInit /\ [][NextCrash]_vars

(***************************************************************************)
(* store.rs: Store::set run by two processes on one database (SpecRace)    *)
(***************************************************************************)
\* Utc::now() readings of the sequential sets that precede the two processes.
MaxRaceClock == 2

\* The processes inside a transaction that has written: SQLite's write lock
\* is theirs until commit or rollback.
WriteLockHolders == {p \in Procs : procs[p].pc \in {"archived", "written"}}

\* Store::set in process p up to unchecked_transaction() (BEGIN DEFERRED takes
\* no lock): encrypt, read the clock, look the row up outside the transaction.
RaceLookup(p, id, value, description, nonce) ==
    /\ procs[p].pc = "ready"
    /\ procs' = [procs EXCEPT ![p] =
                   [pc |-> "looked", id |-> id, value |-> value,
                    enc |-> encrypt(value, SessionKey, nonce),
                    description |-> description, now |-> clock,
                    existing |-> ExistingVersion(secrets, id)]]
    /\ clock' = clock + 1
    /\ UNCHANGED <<secrets, history, metadata, pc, txn, last, bundle, lineage, committed>>

\* The transaction's first statement when a row was found: the archive INSERT
\* takes the write lock and reads the row as it is now.
RaceArchive(p) ==
    /\ procs[p].pc = "looked"
    /\ procs[p].existing # None
    /\ WriteLockHolders = {}
    /\ procs' = [procs EXCEPT ![p] =
                   [pc |-> "archived", id |-> @.id, value |-> @.value, enc |-> @.enc,
                    description |-> @.description, now |-> @.now,
                    existing |-> @.existing,
                    db |-> [secrets |-> secrets,
                            history |-> ArchiveInsert(secrets, history, @.id, None)]]]
    /\ UNCHANGED <<secrets, history, metadata, clock, pc, txn, last, bundle, lineage,
                   committed>>

\* The UPDATE, with the version read before the transaction plus one.
RaceUpdate(p) ==
    /\ procs[p].pc = "archived"
    /\ procs' = [procs EXCEPT ![p].pc = "written",
                              ![p].db.secrets =
                                 UpdateSecret(@, procs[p].id, procs[p].enc,
                                              procs[p].description, procs[p].now,
                                              procs[p].existing[1] + 1)]
    /\ UNCHANGED <<secrets, history, metadata, clock, pc, txn, last, bundle, lineage,
                   committed>>

\* The transaction's only statement when no row was found: the INSERT takes the
\* write lock; a row the UNIQUE constraint refuses fails the call (rollback).
RaceInsert(p) ==
    /\ procs[p].pc = "looked"
    /\ procs[p].existing = None
    /\ WriteLockHolders = {}
    /\ LET row == NewRow(procs[p].id, procs[p].enc, procs[p].description, procs[p].now)
       IN IF InsertAllowed(secrets, row)
          THEN procs' = [procs EXCEPT ![p] =
                           [pc |-> "written", id |-> @.id, value |-> @.value,
                            enc |-> @.enc, description |-> @.description,
                            now |-> @.now, existing |-> @.existing,
                            db |-> [secrets |-> secrets \cup {row},
                                    history |-> history]]]
          ELSE procs' = [procs EXCEPT ![p] =
                           [pc |-> "done", id |-> @.id, value |-> @.value,
                            existing |-> @.existing, ret |-> Err("constraint")]]
    /\ UNCHANGED <<secrets, history, metadata, clock, pc, txn, last, bundle, lineage,
                   committed>>

\* tx.commit() in process p: its tables become the durable ones, the lock is freed.
RaceCommit(p) ==
    /\ procs[p].pc = "written"
    /\ secrets' = procs[p].db.secrets
    /\ history' = procs[p].db.history
    /\ committed' = committed \cup CommittedNow(procs[p].db.secrets, procs[p].id)
    /\ lineage' = [lineage EXCEPT ![procs[p].id] = Append(@, procs[p].value)]
    /\ last' = [op |-> "set", id |-> procs[p].id, ret |-> Ok(<<>>)]
    /\ procs' = [procs EXCEPT ![p] =
                   [pc |-> "done", id |-> @.id, value |-> @.value,
                    existing |-> @.existing, ret |-> Ok(<<>>)]]
    /\ UNCHANGED <<metadata, clock, pc, txn, bundle>>

\* The first statement finds the write lock taken and the wait for it runs out:
\* SQLITE_BUSY, `?` returns, the transaction is dropped.
RaceBusy(p) ==
    /\ procs[p].pc = "looked"
    /\ WriteLockHolders \ {p} # {}
    /\ procs' = [procs EXCEPT ![p] =
                   [pc |-> "done", id |-> @.id, value |-> @.value,
                    existing |-> @.existing, ret |-> Err("database is locked")]]
    /\ UNCHANGED <<secrets, history, metadata, clock, pc, txn, last, bundle, lineage,
                   committed>>

\* Sequential sets through the store handle first, then one set per process.
NextRace ==
    \/ \E id \in Identities, value \in Plaintexts, description \in Descriptions,
          nonce \in Nonces :
            /\ \A p \in Procs : procs[p].pc = "ready"
            /\ clock < MaxRaceClock
            /\ Set(id, value, description, nonce)
    \/ \E p \in Procs, id \in Identities, value \in Plaintexts,
          description \in Descriptions, nonce \in Nonces :
            RaceLookup(p, id, value, description, nonce)
    \/ \E p \in Procs : RaceArchive(p)
    \/ \E p \in Procs : RaceUpdate(p)
    \/ \E p \in Procs : RaceInsert(p)
    \/ \E p \in Procs : RaceCommit(p)
    \/ \E p \in Procs : RaceBusy(p)

SpecRace == FreshInit /\ [][NextRace]_vars

(***************************************************************************)
(* store.rs: Store::open on a store in use (SpecOpen)                      *)
(***************************************************************************)
\* Utc::now() readings in a run of SpecOpen.
MaxOpenClock == 3

\* The passphrases typed at the prompt: the store's own, and another.
Passphrases == {Passphrase, OtherPassphrase}

\* Mutant: the handle is returned without the verification.
open_unverified(meta, passphrase) ==
    [ret |-> Ok([passphrase |-> passphrase]), queried |-> {"metadata"}]

\* Store::open: one SELECT on metadata, verify_passphrase, then the handle.
\* queried: the tables the call's statements read.
open(meta, passphrase) ==
    IF "passphrase_verification" \notin DOMAIN meta
    THEN [ret |-> Err("Store appears corrupted - no passphrase verification found"),
          queried |-> {"metadata"}]
    ELSE IF ~verify_passphrase(passphrase, meta["passphrase_verification"])
         THEN [ret |-> Err("Invalid passphrase"), queried |-> {"metadata"}]
         ELSE [ret |-> Ok([passphrase |-> passphrase]), queried |-> {"metadata"}]

\* A command opens the store with the passphrase typed.
Open(passphrase) ==
    /\ pc = "idle"
    /\ last' = [op |-> "open", passphrase |-> passphrase,
                ret |-> open(metadata, passphrase).ret,
                queried |-> open(metadata, passphrase).queried]
    /\ UNCHANGED <<secrets, history, metadata, clock, pc, txn, bundle, lineage,
                   committed, procs>>

\* Set and delete through the open handle, and further attempts to open.
NextOpen ==
    \/ \E id \in Identities, value \in Plaintexts, description \in Descriptions,
          nonce \in Nonces : clock < MaxOpenClock /\ Set(id, value, description, nonce)
    \/ \E id \in Identities : clock < MaxOpenClock /\ Delete(id)
    \/ \E passphrase \in Passphrases : Open(passphrase)

SpecOpen == FreshInit /\ [][NextOpen]_vars

(***************************************************************************)
(* crypto.rs: the functions applied to envelopes of every kind (SpecCrypto)*)
(***************************************************************************)
\* The plaintexts encrypt is given: the store's, and the empty string.
CryptoPlaintexts == Plaintexts \cup {""}
\* The master keys at hand: one per passphrase, over the store's salt.
MasterKeys == {Derive(passphrase, StoreSalt) : passphrase \in Passphrases}

\* What encrypt returns, per key.
EnvelopesUnder(master_key) ==
    {encrypt(plaintext, master_key, nonce) :
        plaintext \in CryptoPlaintexts, nonce \in Nonces}
CurrentEnvelopes == UNION {EnvelopesUnder(master_key) : master_key \in MasterKeys}

\* A current-format envelope altered in transit: every nonce byte flipped, a
\* ciphertext byte flipped, or the ciphertext and tag cut off.
FlipNonce(envelope) ==
    LET data == B64Decode(envelope)
    IN B64Encode(<<data[1]>> \o [i \in 1..NONCE_LEN |-> 1 - data[i + 1]]
                 \o SubSeq(data, NONCE_LEN + 2, Len(data)))
FlipCiphertext(envelope) ==
    LET data == B64Decode(envelope)
        sealed == data[NONCE_LEN + 2]
    IN B64Encode(SubSeq(data, 1, NONCE_LEN + 1)
                 \o <<[key |-> sealed.key, nonce |-> sealed.nonce, pt |-> sealed.pt,
                       flipped |-> TRUE]>>)
CutCiphertext(envelope) ==
    B64Encode(SubSeq(B64Decode(envelope), 1, NONCE_LEN + 1))
AlteredEnvelopes ==
    UNION {{FlipNonce(e), FlipCiphertext(e), CutCiphertext(e)} : e \in CurrentEnvelopes}

\* A sealed text that authenticates under the key but is not UTF-8.
NotTextEnvelope(master_key, nonce) ==
    B64Encode(<<CRYPTO_VERSION>> \o nonce \o Seal(master_key, nonce, NotUtf8))
NotTextEnvelopes ==
    {NotTextEnvelope(master_key, nonce) : master_key \in MasterKeys, nonce \in Nonces}

\* Legacy envelopes: the bare age blob, and the blob behind the tag byte 1.
UntaggedLegacy(passphrase, plaintext) == B64Encode(AgeBlob(passphrase, plaintext))
TaggedLegacy(passphrase, plaintext) ==
    B64Encode(<<LEGACY_VERSION>> \o AgeBlob(passphrase, plaintext))
LegacyEnvelopes ==
    {UntaggedLegacy(passphrase, plaintext) :
        passphrase \in Passphrases, plaintext \in CryptoPlaintexts}
    \cup {TaggedLegacy(passphrase, plaintext) :
        passphrase \in Passphrases, plaintext \in CryptoPlaintexts}

\* Text that is no base64, the empty envelope, envelopes with another leading
\* byte (one of them with the age header behind it), a current tag that is
\* followed by too few bytes or by an age blob.
NotBase64 == [raw |-> "%%%"]
UNKNOWN_TAG == 3
OddEnvelopes ==
    {NotBase64, B64Encode(<<>>), B64Encode(<<UNKNOWN_TAG>>), B64Encode(<<0>>),
     B64Encode(<<UNKNOWN_TAG>> \o AgeBlob(Passphrase, "v1")),
     B64Encode(<<CRYPTO_VERSION>>),
     B64Encode(<<CRYPTO_VERSION>> \o AgeBlob(Passphrase, "v1"))}

Envelopes ==
    CurrentEnvelopes \cup AlteredEnvelopes \cup NotTextEnvelopes
        \cup LegacyEnvelopes \cup OddEnvelopes

\* Tokens that are not what derive_verification writes: no base64, bytes that
\* are no age file, a cut age file, a file for an X25519 recipient, and a
\* passphrase file of another plaintext.
MalformedTokens ==
    {NotBase64, B64Encode(<<UNKNOWN_TAG>>), B64Encode(<<AGE_HEADER>>),
     B64Encode(AgeFile("X25519", "", VERIFICATION_PLAINTEXT))}
    \cup {B64Encode(AgeBlob(passphrase, "v1")) : passphrase \in Passphrases}
Tokens == {derive_verification(passphrase) : passphrase \in Passphrases}
              \cup MalformedTokens

\* A call of encrypt.
Encrypt(plaintext, master_key, nonce) ==
    /\ last' = [op |-> "encrypt", plaintext |-> plaintext, key |-> master_key,
                nonce |-> nonce, ret |-> Ok(encrypt(plaintext, master_key, nonce))]
    /\ UNCHANGED <<secrets, history, metadata, clock, pc, txn, bundle, lineage,
                   committed, procs>>

\* A call of decrypt; path: the arm of the match that took the envelope.
Decrypt(ciphertext, master_key, passphrase) ==
    /\ last' = [op |-> "decrypt", ciphertext |-> ciphertext, key |-> master_key,
                passphrase |-> passphrase,
                path |-> IF B64Valid(ciphertext) /\ B64Decode(ciphertext) # <<>>
                         THEN Dispatch(B64Decode(ciphertext)) ELSE "none",
                ret |-> decrypt(ciphertext, master_key, passphrase)]
    /\ UNCHANGED <<secrets, history, metadata, clock, pc, txn, bundle, lineage,
                   committed, procs>>

\* A call of derive_verification.
DeriveVerification(passphrase) ==
    /\ last' = [op |-> "derive_verification", passphrase |-> passphrase,
                ret |-> Ok(derive_verification(passphrase))]
    /\ UNCHANGED <<secrets, history, metadata, clock, pc, txn, bundle, lineage,
                   committed, procs>>

\* A call of verify_passphrase.
VerifyPassphrase(passphrase, verification) ==
    /\ last' = [op |-> "verify_passphrase", passphrase |-> passphrase,
                token |-> verification,
                ret |-> verify_passphrase(passphrase, verification)]
    /\ UNCHANGED <<secrets, history, metadata, clock, pc, txn, bundle, lineage,
                   committed, procs>>

NextCrypto ==
    \/ \E plaintext \in CryptoPlaintexts, master_key \in MasterKeys, nonce \in Nonces :
          Encrypt(plaintext, master_key, nonce)
    \/ \E ciphertext \in Envelopes, master_key \in MasterKeys,
          passphrase \in Passphrases : Decrypt(ciphertext, master_key, passphrase)
    \/ \E passphrase \in Passphrases : DeriveVerification(passphrase)
    \/ \E passphrase \in Passphrases, verification \in Tokens :
          VerifyPassphrase(passphrase, verification)

SpecCrypto == FreshInit /\ [][NextCrypto]_vars

(***************************************************************************)
(* cli/migrate.rs: the run row by row, on a store of an earlier release    *)
(* (SpecMigrate)                                                           *)
(***************************************************************************)
\* What a key's row holds when the migration is first run: nothing, an age
\* envelope of an earlier release, or an envelope of the current format.
RowKinds == {"none", "legacy", "current"}
\* The plaintext stored under each key.
StoredPlaintext(key) == IF key = "K1" THEN "v1" ELSE "v2"
StoredRow(key, kind) ==
    [id |-> <<"api", "prod", key>>,
     encrypted_value |->
        IF kind = "legacy" THEN LegacyEnvelope(StoredPlaintext(key))
        ELSE encrypt(StoredPlaintext(key), SessionKey, [i \in 1..NONCE_LEN |-> 0]),
     description |-> None, created_at |-> 0, updated_at |-> 0, version |-> 1]

InitMigrate ==
    /\ \E kinds \in [Keys -> RowKinds] :
          /\ secrets = {StoredRow(key, kinds[key]) : key \in {k \in Keys : kinds[k] # "none"}}
          /\ lineage = [id \in Identities |->
                          IF kinds[id[3]] # "none" THEN <<StoredPlaintext(id[3])>>
                          ELSE <<>>]
    /\ committed = {[id |-> r.id, encrypted_value |-> r.encrypted_value,
                     version |-> r.version] : r \in secrets}
    /\ metadata = SaltedMetadata
    /\ history = <<>>
    /\ clock = 1
    /\ pc = "idle"
    /\ txn = NoTxn
    /\ last = [op |-> "init"]
    /\ bundle = None
    /\ procs = NoProcs

\* run up to the loop: read the salt, derive the key, read every row.
\* resumed: the call before was a run that stopped after migrating some row
\* and left another one to migrate.
MigrateBegin(rows) ==
    /\ pc = "idle"
    /\ IF "encryption_salt" \notin DOMAIN metadata
       THEN /\ last' = [op |-> "migrate", ret |-> Err("no encryption_salt")]
            /\ UNCHANGED <<pc, txn>>
       ELSE /\ txn' = [op |-> "migrate",
                       master_key |->
                          Derive(Passphrase, B64Decode(metadata["encryption_salt"])),
                       rows |-> rows, next |-> 1,
                       counts |-> [migrated |-> 0, already_new |-> 0],
                       resumed |-> /\ last.op = "migrate"
                                   /\ last.ret = Err("stopped")
                                   /\ last.migrated >= 1
                                   /\ NotCurrentFormat(secrets) # {}]
            /\ pc' = "migrating"
            /\ last' = last
    /\ UNCHANGED <<secrets, history, metadata, clock, bundle, lineage, committed, procs>>

\* One turn of the loop: skip a row tagged 2; else decrypt, encrypt and write
\* the row back with one autocommitted UPDATE; an error ends the run.
MigrateRow(nonce) ==
    /\ pc = "migrating"
    /\ txn.next <= Len(txn.rows)
    /\ LET r == txn.rows[txn.next]
           d == decrypt(r.encrypted_value, txn.master_key, Passphrase)
           failed(e) == /\ last' = [op |-> "migrate", ret |-> e,
                                    migrated |-> txn.counts.migrated]
                        /\ pc' = "idle"
                        /\ txn' = NoTxn
                        /\ secrets' = secrets
       IN IF ~B64Valid(r.encrypted_value)
          THEN failed(Err("Failed to decode base64"))
          ELSE IF B64Decode(r.encrypted_value) # <<>>
                  /\ B64Decode(r.encrypted_value)[1] = 2
               THEN /\ txn' = [txn EXCEPT !.next = @ + 1, !.counts.already_new = @ + 1]
                    /\ UNCHANGED <<secrets, pc, last>>
               ELSE IF ~d.ok
                    THEN failed(d)
                    ELSE /\ secrets' = UpdateEnvelope(secrets, r,
                                           encrypt(d.val, txn.master_key, nonce))
                         /\ txn' = [txn EXCEPT !.next = @ + 1,
                                               !.counts.migrated = @ + 1]
                         /\ UNCHANGED <<pc, last>>
    /\ UNCHANGED <<history, metadata, clock, bundle, lineage, committed, procs>>

\* The loop is through: the counts are reported.
MigrateEnd ==
    /\ pc = "migrating"
    /\ txn.next > Len(txn.rows)
    /\ last' = [op |-> "migrate", ret |-> Ok(txn.counts), resumed |-> txn.resumed]
    /\ pc' = "idle"
    /\ txn' = NoTxn
    /\ UNCHANGED <<secrets, history, metadata, clock, bundle, lineage, committed, procs>>

\* The process dies during the loop, or a statement of it fails and `?`
\* returns: what the UPDATEs so far wrote stays.
MigrateStop ==
    /\ pc = "migrating"
    /\ last' = [op |-> "migrate", ret |-> Err("stopped"),
                migrated |-> txn.counts.migrated]
    /\ pc' = "idle"
    /\ txn' = NoTxn
    /\ UNCHANGED <<secrets, history, metadata, clock, bundle, lineage, committed, procs>>

NextMigrate ==
    \/ \E rows \in RowOrders(secrets) : MigrateBegin(rows)
    \/ \E nonce \in Nonces : MigrateRow(nonce)
    \/ MigrateEnd
    \/ MigrateStop

SpecMigrate == InitMigrate /\ [][NextMigrate]_vars

(***************************************************************************)
(* cli/migrate.rs: the run on a store with a damaged row                   *)
(* (SpecMigrateDamaged)                                                    *)
(***************************************************************************)
\* An envelope that raises a format error: an unknown tag byte, text that is
\* no base64, an age file cut behind its header.
DamagedKinds == {"unknown_tag", "not_base64", "cut_legacy"}
DamagedEnvelope(kind) ==
    CASE kind = "unknown_tag" -> B64Encode(<<UNKNOWN_TAG>>)
      [] kind = "not_base64" -> NotBase64
      [] OTHER -> B64Encode(<<AGE_HEADER>>)
DamagedRow(key, kind) ==
    [id |-> <<"api", "prod", key>>, encrypted_value |-> DamagedEnvelope(kind),
     description |-> None, created_at |-> 0, updated_at |-> 0, version |-> 1]

\* The row decrypts under the store's passphrase and key.
Decryptable(r) == decrypt(r.encrypted_value, SessionKey, Passphrase).ok

\* A store of an earlier release in which any row may be damaged.
InitDamaged ==
    /\ \E kinds \in [Keys -> RowKinds \cup DamagedKinds] :
          /\ secrets = {IF kinds[key] \in DamagedKinds
                        THEN DamagedRow(key, kinds[key])
                        ELSE StoredRow(key, kinds[key]) :
                           key \in {k \in Keys : kinds[k] # "none"}}
          /\ lineage = [id \in Identities |->
                          IF kinds[id[3]] \in {"legacy", "current"}
                          THEN <<StoredPlaintext(id[3])>> ELSE <<>>]
    /\ committed = {[id |-> r.id, encrypted_value |-> r.encrypted_value,
                     version |-> r.version] : r \in secrets}
    /\ metadata = SaltedMetadata
    /\ history = <<>>
    /\ clock = 1
    /\ pc = "idle"
    /\ txn = NoTxn
    /\ last = [op |-> "init"]
    /\ bundle = None
    /\ procs = NoProcs

SpecMigrateDamaged == InitDamaged /\ [][NextMigrate]_vars

(***************************************************************************)
(* Store::import of bundle files from another store (SpecImport)           *)
(***************************************************************************)
\* The salt of a second store, initialized on its own (crypto.rs:58-63), and
\* the key that store derives from the shared passphrase.
OtherSalt == "salt2"
SourceKey == Derive(Passphrase, OtherSalt)

\* A current row of the second store: written by an age-only release, or by
\* set under the second store's key; it is at version 3 there.
SourceRow(key, kind) ==
    [id |-> <<"api", "prod", key>>,
     encrypted_value |->
        IF kind = "legacy" THEN LegacyEnvelope(StoredPlaintext(key))
        ELSE encrypt(StoredPlaintext(key), SourceKey, [i \in 1..NONCE_LEN |-> 0]),
     description |-> None, created_at |-> 0, updated_at |-> 0, version |-> 3]

\* The bundle the second store exports; its token is of the shared passphrase.
SourceBundle(kinds) ==
    export({SourceRow(key, kinds[key]) : key \in {k \in Keys : kinds[k] # "none"}},
           InitMetadata, "api", "prod", 0)
SourceBundles == {SourceBundle(kinds) : kinds \in [Keys -> RowKinds]}
LegacyBundle == SourceBundle([key \in Keys |-> "legacy"])

\* A bundle file whose version field is 2 (serde reads any i32 into it).
VersionTwoBundle == [LegacyBundle EXCEPT !.version = 2]

\* A bundle file whose second envelope has an unknown tag.
DamagedBundle ==
    [LegacyBundle EXCEPT !.secrets[2].encrypted_value = DamagedEnvelope("unknown_tag")]

\* The bundle files at hand in SpecImport.
ImportFiles ==
    BundleFiles \cup SourceBundles \cup {VersionTwoBundle, DamagedBundle}

NextImport ==
    \/ \E id \in Identities, value \in Plaintexts, description \in Descriptions,
          nonce \in Nonces : clock < MaxClock /\ Set(id, value, description, nonce)
    \/ \E project \in Projects, environment \in Environments :
          Export(project, environment)
    \/ \E b \in ImportFiles : \E nonces \in [1..Len(b.secrets) -> Nonces] :
          Import(b, nonces)

SpecImport == FreshInit /\ [][NextImport]_vars

(***************************************************************************)
(* Store::export on a store with two environments (SpecExport)             *)
(***************************************************************************)
ExportEnvironments == {"dev", "prod"}
DevId == <<"api", "dev", "K1">>
ExportIdentities == Identities \cup {DevId}

\* The store Store::init created, or the same store after set of the dev entry.
InitExport ==
    /\ \E used \in BOOLEAN :
          /\ secrets = IF used
                       THEN {[id |-> DevId,
                              encrypted_value |->
                                 encrypt("v2", SessionKey, [i \in 1..NONCE_LEN |-> 1]),
                              description |-> None, created_at |-> 0,
                              updated_at |-> 0, version |-> 1]}
                       ELSE {}
          /\ lineage = [id \in ExportIdentities |->
                          IF used /\ id = DevId THEN <<"v2">> ELSE <<>>]
    /\ committed = {[id |-> r.id, encrypted_value |-> r.encrypted_value,
                     version |-> r.version] : r \in secrets}
    /\ metadata = InitMetadata
    /\ history = <<>>
    /\ clock = 1
    /\ pc = "idle"
    /\ txn = NoTxn
    /\ last = [op |-> "init"]
    /\ bundle = None
    /\ procs = NoProcs

NextExport ==
    \/ \E id \in ExportIdentities, value \in Plaintexts,
          description \in Descriptions, nonce \in Nonces :
          clock < MaxClock /\ Set(id, value, description, nonce)
    \/ \E id \in ExportIdentities : clock < MaxClock /\ Delete(id)
    \/ \E project \in Projects, environment \in ExportEnvironments :
          Export(project, environment)

SpecExport == InitExport /\ [][NextExport]_vars

(***************************************************************************)
(* Store::get and Store::set when the lookup query may fail (SpecFault)    *)
(***************************************************************************)
\* query_row(...).ok() (store.rs:135-143, 192-200): the row found, or None when
\* no row matches and also when the query fails (SQLITE_BUSY, I/O error).
LookupRow(tbl, id, failed) ==
    IF failed \/ SelectSecret(tbl, id) = {} THEN None
    ELSE Some(CHOOSE r \in SelectSecret(tbl, id) : TRUE)

\* Store::get, the whole call; the query fails or not.
Get(id, failed) ==
    /\ pc = "idle"
    /\ LET encrypted == LookupRow(secrets, id, failed)
           d == decrypt(encrypted[1].encrypted_value, SessionKey, Passphrase)
       IN last' = [op |-> "get", id |-> id, failed |-> failed,
                   ret |-> IF encrypted = None THEN Ok(None)
                           ELSE IF d.ok THEN Ok(Some(d.val)) ELSE d]
    /\ UNCHANGED <<secrets, history, metadata, clock, pc, txn, bundle, lineage,
                   committed, procs>>

\* Store::set, the whole call; its lookup query fails or not. Ghost: existed
\* tells whether the row was there, path which branch of store.rs:147 ran.
SetLookup(id, value, description, nonce, failed) ==
    /\ pc = "idle"
    /\ LET enc == encrypt(value, SessionKey, nonce)
           found == LookupRow(secrets, id, failed)
           existing == IF found = None THEN None ELSE Some(found[1].version)
           row == NewRow(id, enc, description, clock)
           refused == existing = None /\ ~InsertAllowed(secrets, row)
           db == SetStatements([secrets |-> secrets, history |-> history], id, enc,
                               description, clock, existing)
       IN /\ secrets' = IF refused THEN secrets ELSE db.secrets
          /\ history' = IF refused THEN history ELSE db.history
          /\ committed' = IF refused THEN committed
                          ELSE committed \cup CommittedNow(db.secrets, id)
          /\ lineage' = IF refused THEN lineage
                        ELSE [lineage EXCEPT ![id] = Append(@, value)]
          /\ last' = [op |-> "set", id |-> id, failed |-> failed,
                      existed |-> SelectSecret(secrets, id) # {},
                      path |-> IF existing = None THEN "insert" ELSE "update",
                      ret |-> IF refused THEN Err("constraint") ELSE Ok(<<>>)]
    /\ clock' = clock + 1
    /\ UNCHANGED <<metadata, pc, txn, bundle, procs>>

NextFault ==
    \/ \E id \in Identities, value \in Plaintexts, description \in Descriptions,
          nonce \in Nonces, failed \in BOOLEAN :
          clock < MaxClock /\ SetLookup(id, value, description, nonce, failed)
    \/ \E id \in Identities : clock < MaxClock /\ Delete(id)
    \/ \E id \in Identities, failed \in BOOLEAN : Get(id, failed)

SpecFault == FreshInit /\ [][NextFault]_vars

(***************************************************************************)
(* cli/history.rs on one identity over delete and recreate (SpecHistory)   *)
(***************************************************************************)
HistoryId == <<"api", "prod", "K1">>

\* cli/history.rs run: get, then Store::history with the limit; the version
\* printed for the live head comes from the first entry returned (line 42).
HistoryRun(id, limit) ==
    /\ pc = "idle"
    /\ \E entries \in history_results(history, id, limit) :
          last' = [op |-> "history", id |-> id, limit |-> limit,
                   current |-> get(secrets, id),
                   entries |-> entries,
                   current_version |->
                      IF entries # <<>> THEN entries[1].version + 1 ELSE 1]
    /\ UNCHANGED <<secrets, history, metadata, clock, pc, txn, bundle, lineage,
                   committed, procs>>

NextHistory ==
    \/ \E value \in Plaintexts, description \in Descriptions, nonce \in Nonces :
          clock < MaxHistoryClock /\ Set(HistoryId, value, description, nonce)
    \/ clock < MaxHistoryClock /\ Delete(HistoryId)
    \/ \E limit \in 0..MaxLimit : HistoryRun(HistoryId, limit)

SpecHistory == FreshInit /\ [][NextHistory]_vars

(***************************************************************************)
(* store.rs: Store::delete in one process, Store::set in another           *)
(* (SpecRaceDelete)                                                        *)
(***************************************************************************)
Deleter == "p1"
Setter == "p2"

\* Store::delete's first statement in process p, autocommitted: it waits for
\* the write lock, then archives the row as it is now.
RaceDeleteArchive(p, id) ==
    /\ procs[p].pc = "ready"
    /\ WriteLockHolders = {}
    /\ history' = ArchiveInsert(secrets, history, id, Some(clock))
    /\ procs' = [procs EXCEPT ![p] = [pc |-> "delete_archived", id |-> id]]
    /\ clock' = clock + 1
    /\ UNCHANGED <<secrets, metadata, pc, txn, last, bundle, lineage, committed>>

\* Store::delete's second statement, autocommitted: it removes the row that
\* is there now.
RaceDeleteRemove(p) ==
    /\ procs[p].pc = "delete_archived"
    /\ WriteLockHolders = {}
    /\ secrets' = DeleteSecret(secrets, procs[p].id)
    /\ lineage' = [lineage EXCEPT ![procs[p].id] = <<>>]
    /\ last' = [op |-> "delete", id |-> procs[p].id,
                ret |-> Ok(Cardinality(secrets)
                           - Cardinality(DeleteSecret(secrets, procs[p].id)) > 0)]
    /\ procs' = [procs EXCEPT ![p] =
                   [pc |-> "done", id |-> @.id,
                    ret |-> Ok(Cardinality(secrets)
                               - Cardinality(DeleteSecret(secrets, @.id)) > 0)]]
    /\ UNCHANGED <<history, metadata, clock, pc, txn, bundle, committed>>

\* The DELETE finds the write lock taken and the wait for it runs out:
\* SQLITE_BUSY, `?` returns after the archive statement has committed.
RaceDeleteBusy(p) ==
    /\ procs[p].pc = "delete_archived"
    /\ WriteLockHolders # {}
    /\ procs' = [procs EXCEPT ![p] =
                   [pc |-> "done", id |-> @.id, ret |-> Err("database is locked")]]
    /\ UNCHANGED <<secrets, history, metadata, clock, pc, txn, last, bundle, lineage,
                   committed>>

\* Sequential sets through the store handle first, then a delete by one
\* process and a set by the other.
NextRaceDelete ==
    \/ \E id \in Identities, value \in Plaintexts, description \in Descriptions,
          nonce \in Nonces :
            /\ \A p \in Procs : procs[p].pc = "ready"
            /\ clock < MaxRaceClock
            /\ Set(id, value, description, nonce)
    \/ \E id \in Identities : RaceDeleteArchive(Deleter, id)
    \/ RaceDeleteRemove(Deleter)
    \/ RaceDeleteBusy(Deleter)
    \/ \E id \in Identities, value \in Plaintexts, description \in Descriptions,
          nonce \in Nonces : RaceLookup(Setter, id, value, description, nonce)
    \/ RaceArchive(Setter)
    \/ RaceUpdate(Setter)
    \/ RaceInsert(Setter)
    \/ RaceCommit(Setter)

SpecRaceDelete == FreshInit /\ [][NextRaceDelete]_vars

(***************************************************************************)
(* cli/migrate.rs in one process, Store::set in another (SpecRaceMigrate)  *)
(***************************************************************************)
\* migrate on a store of an earlier release, and one set by another process;
\* the UPDATE of one turn of migrate's loop waits for the write lock.
NextRaceMigrate ==
    \/ \E rows \in RowOrders(secrets) : MigrateBegin(rows)
    \/ \E nonce \in Nonces : WriteLockHolders = {} /\ MigrateRow(nonce)
    \/ MigrateEnd
    \/ \E id \in Identities, value \in Plaintexts, description \in Descriptions,
          nonce \in Nonces : RaceLookup(Setter, id, value, description, nonce)
    \/ RaceArchive(Setter)
    \/ RaceUpdate(Setter)
    \/ RaceInsert(Setter)
    \/ RaceCommit(Setter)

SpecRaceMigrate == InitMigrate /\ [][NextRaceMigrate]_vars

(***************************************************************************)
(* Store::set with and without a description (SpecDescribe)                *)
(***************************************************************************)
\* Option<&str> description: None from cli/set.rs, Some from a bundle.
GivenDescriptions == {None, Some("d1"), Some("d2")}

NextDescribe ==
    \/ \E id \in Identities, value \in Plaintexts, description \in GivenDescriptions :
          /\ clock < MaxClock
          /\ Set(id, value, description, [i \in 1..NONCE_LEN |-> 0])
    \/ \E id \in Identities : clock < MaxClock /\ Delete(id)

SpecDescribe == FreshInit /\ [][NextDescribe]_vars

(***************************************************************************)
(* cli/import_env.rs: parse_line (SpecParse)                               *)
(***************************************************************************)
\* A line is a sequence of characters (one-character strings).
Chars == {"K", "v", " ", "=", ":", "#", "\"", "'"}
ExportPrefix == <<"e", "x", "p", "o", "r", "t", " ">>

\* str::trim: the blanks at both ends removed (the blank is the whitespace here).
RECURSIVE Trim(_)
Trim(s) ==
    IF s # <<>> /\ Head(s) = " " THEN Trim(Tail(s))
    ELSE IF s # <<>> /\ s[Len(s)] = " " THEN Trim(SubSeq(s, 1, Len(s) - 1))
         ELSE s

\* str::strip_prefix: Some(rest) or None.
StripPrefix(s, p) ==
    IF Len(s) >= Len(p) /\ SubSeq(s, 1, Len(p)) = p
    THEN Some(SubSeq(s, Len(p) + 1, Len(s))) ELSE None

\* str::split_once: the parts before and after the first occurrence of c.
SplitOnce(s, c) ==
    IF \A i \in 1..Len(s) : s[i] # c THEN None
    ELSE LET i == CHOOSE j \in 1..Len(s) :
                     s[j] = c /\ \A k \in 1..(j - 1) : s[k] # c
         IN Some(<<SubSeq(s, 1, i - 1), SubSeq(s, i + 1, Len(s))>>)

\* import_env.rs:30-34: one pair of double quotes, else one pair of single
\* quotes, else the value as it is.
Unquote(value) ==
    LET StripSuffix(s, p) ==
            IF Len(s) >= Len(p) /\ SubSeq(s, Len(s) - Len(p) + 1, Len(s)) = p
            THEN Some(SubSeq(s, 1, Len(s) - Len(p))) ELSE None
        stripped(q) ==
            IF StripPrefix(value, <<q>>) = None THEN None
            ELSE StripSuffix(StripPrefix(value, <<q>>)[1], <<q>>)
    IN IF stripped("\"") # None THEN stripped("\"")[1]
       ELSE IF stripped("'") # None THEN stripped("'")[1]
            ELSE value

\* parse_line: None, or Some(<<key, value>>); the branch KEY=VALUE first
\* (import_env.rs:26-39), then the branch `KEY: VALUE` (import_env.rs:41-51).
parse_line(raw) ==
    LET trimmed == Trim(raw)
    IN IF trimmed = <<>> \/ Head(trimmed) = "#" THEN None
       ELSE LET line == IF StripPrefix(trimmed, ExportPrefix) # None
                        THEN StripPrefix(trimmed, ExportPrefix)[1] ELSE trimmed
                kv == SplitOnce(line, "=")
                hv == SplitOnce(line, ":")
                key == Trim(hv[1][1])
                value == Trim(hv[1][2])
            IN IF kv # None /\ Trim(kv[1][1]) # <<>>
               THEN Some(<<Trim(kv[1][1]), Unquote(Trim(kv[1][2]))>>)
               ELSE IF hv = None THEN None
                    ELSE IF key # <<>> /\ \A i \in 1..Len(key) : key[i] # " "
                         THEN Some(<<key, value>>) ELSE None

\* The lines parse_line is given, with and without the prefix `export `.
Lines ==
    LET Bodies(n) == UNION {[1..k -> Chars] : k \in 0..n}
    IN Bodies(MaxLineLen) \cup {ExportPrefix \o b : b \in Bodies(MaxLineLen - 2)}

\* parse_line applied to a line.
ParseLine(line) ==
    /\ pc = "idle"
    /\ last' = [op |-> "parse_line", line |-> line, ret |-> parse_line(line)]
    /\ UNCHANGED <<secrets, history, metadata, clock, pc, txn, bundle, lineage,
                   committed, procs>>

\* One call per behaviour: the function keeps nothing from call to call.
NextParse == last.op = "init" /\ \E line \in Lines : ParseLine(line)

SpecParse == FreshInit /\ [][NextParse]_vars

(***************************************************************************)
(* cli/set.rs, cli/import_env.rs, Store::import: the commands that store   *)
(* a value (SpecCommands)                                                  *)
(***************************************************************************)
\* cli/set.rs run: an empty value is refused before the store is written.
SetRun(id, value, nonce) ==
    IF value = ""
    THEN /\ pc = "idle"
         /\ last' = [op |-> "set", id |-> id,
                     ret |-> Err("Secret value cannot be empty")]
         /\ UNCHANGED <<secrets, history, metadata, clock, pc, txn, bundle, lineage,
                        committed, procs>>
    ELSE Set(id, value, None, nonce)

\* The String of a sequence of characters.
RECURSIVE Str(_)
Str(s) == IF s = <<>> THEN "" ELSE Head(s) \o Str(Tail(s))

\* The lines of the input files: dotenv and heroku lines, a comment, a blank.
EnvLines ==
    {<<"K", "1", "=", "v", "1">>,
     <<"K", "2", "=">>,
     <<"K", "1", ":", " ", "v", "2">>,
     <<"K", "2", "=", "\"", "\"">>,
     <<"#", " ", "K", "1">>,
     <<>>}
MaxFileLines == 2

\* The loop of cli/import_env.rs run: every parsed line is set, as read.
RECURSIVE ImportEnvLines(_, _, _, _, _)
ImportEnvLines(st, project, environment, lines, nonces) ==
    IF lines = <<>> THEN st
    ELSE LET parsed == parse_line(Head(lines))
             id == <<project, environment, Str(parsed[1][1])>>
             value == Str(parsed[1][2])
             db == SetStatements([secrets |-> st.secrets, history |-> st.history], id,
                                 encrypt(value, SessionKey, Head(nonces)), None,
                                 st.clock, ExistingVersion(st.secrets, id))
             next == IF parsed = None THEN st
                     ELSE [secrets |-> db.secrets, history |-> db.history,
                           clock |-> st.clock + 1,
                           lineage |-> [st.lineage EXCEPT ![id] = Append(@, value)],
                           committed |-> st.committed \cup CommittedNow(db.secrets, id),
                           imported |-> st.imported + 1]
         IN ImportEnvLines(next, project, environment, Tail(lines), Tail(nonces))

\* cli/import_env.rs run, the whole command on the lines of its input.
ImportEnv(project, environment, file, nonces) ==
    /\ pc = "idle"
    /\ clock + Len(file) <= MaxClock
    /\ LET st == ImportEnvLines(
                    [secrets |-> secrets, history |-> history, clock |-> clock,
                     lineage |-> lineage, committed |-> committed, imported |-> 0],
                    project, environment, file, nonces)
       IN /\ secrets' = st.secrets
          /\ history' = st.history
          /\ clock' = st.clock
          /\ lineage' = st.lineage
          /\ committed' = st.committed
          /\ last' = [op |-> "import_env", file |-> file, imported |-> st.imported,
                      ret |-> Ok(<<>>)]
    /\ UNCHANGED <<metadata, pc, txn, bundle, procs>>

\* The value given to `ts set` is any string, the empty one included; an
\* input file holds up to MaxFileLines lines.
NextCommands ==
    \/ \E id \in Identities, value \in Plaintexts \cup {""}, nonce \in Nonces :
          clock < MaxClock /\ SetRun(id, value, nonce)
    \/ \E project \in Projects, environment \in Environments, n \in 1..MaxFileLines :
          \E file \in [1..n -> EnvLines], nonces \in [1..n -> Nonces] :
             ImportEnv(project, environment, file, nonces)
    \/ \E project \in Projects, environment \in Environments :
          Export(project, environment)
    \/ \E b \in BundleFiles : \E nonces \in [1..Len(b.secrets) -> Nonces] :
          Import(b, nonces)

SpecCommands == FreshInit /\ [][NextCommands]_vars

(***************************************************************************)
(* Properties                                                              *)
(***************************************************************************)
\* The identity's current row (there is one).
Row(tbl, id) == CHOOSE r \in SelectSecret(tbl, id) : TRUE
Present(tbl, id) == SelectSecret(tbl, id) # {}
\* This step is a finished set / delete call on the identity.
SetStep(id) == last'.op = "set" /\ last'.id = id /\ last'.ret.ok /\ clock' # clock
DeleteStep(id) == last'.op = "delete" /\ last'.id = id /\ clock' # clock
\* The identity's history holds an entry written by a delete.
Tombstoned(id) == \E i \in HistoryIdx(history, id) : history[i].deleted_at # None

\* C1: after a successful set of a value on an identity, and until the next set or
\* delete of that identity, get on it returns exactly that value, whatever was
\* stored before and whatever happens to other identities.
C1_SetThenGet ==
    \A id \in Identities :
        lineage[id] # <<>> =>
            get(secrets, id) = Ok(Some(lineage[id][Len(lineage[id])]))

\* C1 witness: an identity overwritten with a different value, another identity present.
C1_Witness ==
    \E id \in Identities :
        /\ Len(lineage[id]) >= 2
        /\ lineage[id][Len(lineage[id])] # lineage[id][Len(lineage[id]) - 1]
        /\ get(secrets, id) = Ok(Some(lineage[id][Len(lineage[id])]))
        /\ \E other \in Identities : other # id /\ Present(secrets, other)

\* What C2 says of an identity whose current lineage is N sets long.
C2_VersionsAndHistory(id) ==
    LET N == Len(lineage[id])
    IN /\ Present(secrets, id)
       /\ Row(secrets, id).version = N
       /\ \A limit \in (N - 1)..MaxLimit :
            \A h \in history_results(history, id, limit) :
                /\ Len(h) = N - 1
                /\ \A k \in 1..Len(h) :
                     h[k].version = N - k /\ h[k].deleted_at = None

\* C2 as stated: from any absent identity, tombstoned ones included, N sets with
\* no delete in between give version N and a history of exactly versions N-1..1.
C2_Original ==
    \A id \in Identities : lineage[id] # <<>> => C2_VersionsAndHistory(id)

\* C2 amended: from an identity that was never deleted (so that it starts with no
\* history), N sets give current version N, and history with limit >= N-1
\* returns exactly N-1 entries, versions N-1, ..., 1 in that order, no deleted_at.
C2_FreshLineage ==
    \A id \in Identities :
        (lineage[id] # <<>> /\ ~Tombstoned(id)) => C2_VersionsAndHistory(id)

\* C2 witness: three sets on a never-deleted identity, two archived versions.
C2_Witness ==
    \E id \in Identities :
        /\ Len(lineage[id]) = 3
        /\ ~Tombstoned(id)
        /\ Row(secrets, id).version = 3
        /\ Cardinality(HistoryIdx(history, id)) = 2

\* The durable tables after set's transaction on a present identity: the row
\* holds the new envelope at version N+1, history has the old row tagged N.
SetFullyNew ==
    \E r \in SelectSecret(secrets, txn.id) :
        /\ secrets' = (secrets \ {r}) \cup
                      {[r EXCEPT !.encrypted_value = txn.enc,
                                 !.description = txn.description,
                                 !.updated_at = txn.now,
                                 !.version = r.version + 1]}
        /\ history' = Append(history,
                        [id |-> r.id, encrypted_value |-> r.encrypted_value,
                         version |-> r.version, created_at |-> r.updated_at,
                         deleted_at |-> None])

\* C3: while a set on a present identity runs, crashes or fails, every step
\* leaves the durable tables as they were (old envelope at version N, no new
\* history entry) or moves them in one step to the new state (new envelope at
\* N+1, the old one in history tagged N): nothing in between is ever durable.
C3_SetAtomic ==
    [][(txn.op = "set" /\ Present(secrets, txn.id)) =>
          \/ secrets' = secrets /\ history' = history
          \/ pc = "set_written" /\ SetFullyNew]_vars

\* C3 witness: the transaction has archived the old row, the durable tables have
\* not changed; a crash can strike here.
C3_Witness ==
    /\ pc = "set_archived"
    /\ Present(secrets, txn.id)
    /\ Len(txn.db.history) = Len(history) + 1
    /\ Row(secrets, txn.id).version = txn.existing[1]

\* C4: after delete ended, by a crash or a failure too, the store holds no
\* deleted_at history entry of a current row while that row still exists.
C4_DeleteAtomic ==
    pc = "idle" =>
        ~\E r \in secrets, i \in 1..Len(history) :
            /\ history[i].id = r.id
            /\ history[i].version = r.version
            /\ history[i].encrypted_value = r.encrypted_value
            /\ history[i].created_at = r.updated_at
            /\ history[i].deleted_at # None

\* C5: in sequential use of set and delete, every envelope ever committed as an
\* identity's current value is still current or is in its history under the
\* version it held.
C5_NoVersionLost ==
    \A c \in committed :
        \/ \E r \in secrets :
             /\ r.id = c.id
             /\ r.encrypted_value = c.encrypted_value
             /\ r.version = c.version
        \/ \E i \in 1..Len(history) :
             /\ history[i].id = c.id
             /\ history[i].encrypted_value = c.encrypted_value
             /\ history[i].version = c.version

\* C5 witness: an identity overwritten and then deleted; both versions committed,
\* neither current any more.
C5_Witness ==
    \E id \in Identities :
        /\ ~Present(secrets, id)
        /\ Cardinality({c \in committed : c.id = id}) >= 2
        /\ \E c \in committed : c.id = id /\ c.version = 2

\* C6: history is append-only under set, delete, import, export and migrate:
\* every step keeps the entries written so far, unchanged and in place.
C6_HistoryAppendOnly ==
    [][/\ Len(history') >= Len(history)
       /\ SubSeq(history', 1, Len(history)) = history]_vars

\* C6 witness: an import has just archived a second entry.
C6_Witness ==
    /\ last.op = "import"
    /\ last.ret = Ok(1)
    /\ Len(history) >= 2

\* C7: delete on an identity present at version N returns true, removes it from
\* get and list, and appends exactly one history entry: its identity, the envelope
\* it held, version N, deleted_at set; the earlier entries stay.
C7_DeletePresent ==
    [][\A id \in Identities :
          (DeleteStep(id) /\ Present(secrets, id)) =>
             /\ last'.ret = Ok(TRUE)
             /\ get(secrets', id) = Ok(None)
             /\ \A k \in 1..Len(list(secrets', None, None)) :
                    list(secrets', None, None)[k].id # id
             /\ Len(history') = Len(history) + 1
             /\ SubSeq(history', 1, Len(history)) = history
             /\ history'[Len(history')].id = id
             /\ history'[Len(history')].encrypted_value
                    = Row(secrets, id).encrypted_value
             /\ history'[Len(history')].version = Row(secrets, id).version
             /\ history'[Len(history')].deleted_at # None]_vars

\* C7 witness: a delete of an identity at version 2 has returned true.
C7_Witness ==
    /\ last.op = "delete"
    /\ last.ret = Ok(TRUE)
    /\ history # <<>>
    /\ history[Len(history)].id = last.id
    /\ history[Len(history)].version = 2
    /\ Cardinality(HistoryIdx(history, last.id)) = 2

\* C8: delete on an identity with no current entry returns false and changes
\* neither history nor any current row.
C8_DeleteAbsent ==
    [][\A id \in Identities :
          (DeleteStep(id) /\ ~Present(secrets, id)) =>
             /\ last'.ret = Ok(FALSE)
             /\ secrets' = secrets
             /\ history' = history]_vars

\* C8 witness: a delete of an already deleted identity has returned false,
\* while another identity is present.
C8_Witness ==
    /\ last.op = "delete"
    /\ last.ret = Ok(FALSE)
    /\ Tombstoned(last.id)
    /\ secrets # {}

\* C9: a set on an absent identity, one deleted at version N included, creates
\* version 1 and leaves the history of the old lineage as it is; a set on a
\* present identity raises the version by exactly 1.
C9_RecreateStartsAtOne ==
    [][\A id \in Identities :
          SetStep(id) =>
             /\ Present(secrets', id)
             /\ SubSeq(history', 1, Len(history)) = history
             /\ IF Present(secrets, id)
                THEN Row(secrets', id).version = Row(secrets, id).version + 1
                ELSE Row(secrets', id).version = 1 /\ history' = history]_vars

\* C9 witness: an identity deleted at version 2 and set again is at version 1,
\* its old lineage (1, 2 with deleted_at) still in history.
C9_Witness ==
    \E id \in Identities :
        /\ Present(secrets, id)
        /\ Row(secrets, id).version = 1
        /\ \E i, j \in HistoryIdx(history, id) :
             /\ history[i].version = 1 /\ history[i].deleted_at = None
             /\ history[j].version = 2 /\ history[j].deleted_at # None

\* C10: for an identity at current version N, get_version(v) gives the plaintext
\* set as version v of the current lineage for 1 <= v <= N, and not found for
\* any other v.
C10_GetVersion ==
    \A id \in Identities :
        lineage[id] # <<>> =>
            \A v \in 0..MaxStoreClock :
                get_version_results(secrets, history, id, v) =
                    IF 1 <= v /\ v <= Len(lineage[id])
                    THEN {Ok(Some(lineage[id][v]))}
                    ELSE {Ok(None)}

\* C11: in every reachable state there is at most one current entry per identity,
\* also when two processes run set side by side on an identity that both found
\* absent; this holds of the durable table and of every open transaction's.
C11_OneCurrentEntry ==
    \A id \in Identities :
        /\ Cardinality(SelectSecret(secrets, id)) <= 1
        /\ \A p \in Procs :
             procs[p].pc \in {"archived", "written"} =>
                Cardinality(SelectSecret(procs[p].db.secrets, id)) <= 1

\* C11 witness: both processes looked the identity up and found none; one has
\* committed its INSERT, the other's INSERT was refused.
C11_Witness ==
    \E p, q \in Procs :
        /\ procs[p].pc = "done" /\ procs[q].pc = "done"
        /\ procs[p].id = procs[q].id
        /\ procs[p].existing = None /\ procs[q].existing = None
        /\ procs[p].ret.ok
        /\ procs[q].ret = Err("constraint")
        /\ Cardinality(SelectSecret(secrets, procs[p].id)) = 1

\* Both processes have finished a successful set on the identity, which was
\* present before either of them started.
BothSetsDone(id) ==
    /\ \A p \in Procs : procs[p].pc = "done" /\ procs[p].id = id /\ procs[p].ret.ok
    /\ Len(lineage[id]) >= 3

\* C12: when two processes each ran one set on an identity present at version N,
\* under every interleaving the current entry carries the value committed last at
\* version N+2, history holds exactly one entry for version N and one for N+1
\* (the value committed first), and the current version is no history version.
C12_BothSetsRecorded ==
    \A id \in Identities :
        BothSetsDone(id) =>
            LET N == Len(lineage[id]) - 2
                at(v) == {i \in HistoryIdx(history, id) : history[i].version = v}
            IN /\ Row(secrets, id).version = N + 2
               /\ get(secrets, id) = Ok(Some(lineage[id][N + 2]))
               /\ Cardinality(at(N)) = 1
               /\ Cardinality(at(N + 1)) = 1
               /\ \A i \in at(N + 1) :
                    decrypt(history[i].encrypted_value, SessionKey, Passphrase)
                        = Ok(lineage[id][N + 1])
               /\ at(Row(secrets, id).version) = {}

\* C13: open with a passphrase that is not the store's fails with the
\* authentication error and gives no handle, reads no table but metadata (so no
\* row of secrets or secret_history is read or decrypted), and changes nothing.
C13_OpenWrongPassphrase ==
    [][(last'.op = "open" /\ last'.passphrase # Passphrase) =>
          /\ last'.ret = Err("Invalid passphrase")
          /\ last'.queried \cap {"secrets", "secret_history"} = {}
          /\ secrets' = secrets
          /\ history' = history
          /\ metadata' = metadata]_vars

\* C13 witness: a wrong passphrase was refused on a store that holds a current
\* row and a history entry.
C13_Witness ==
    /\ last.op = "open"
    /\ last.passphrase = OtherPassphrase
    /\ ~last.ret.ok
    /\ secrets # {}
    /\ history # <<>>

\* C14: verify_passphrase(p, derive_verification(p)) is true for every p, it is
\* false for the token of any other passphrase, and it is false (a boolean,
\* never a failure) for every malformed token.
C14_VerifyPassphrase ==
    last.op = "verify_passphrase" =>
        /\ last.ret \in BOOLEAN
        /\ \A p \in Passphrases :
             last.token = derive_verification(p) => (last.ret <=> last.passphrase = p)
        /\ last.token \in MalformedTokens => last.ret = FALSE

\* C14 witness: the token written for an X25519 recipient was answered false.
C14_Witness ==
    /\ last.op = "verify_passphrase"
    /\ last.token = B64Encode(AgeFile("X25519", "", VERIFICATION_PLAINTEXT))
    /\ last.ret = FALSE

\* C15: for every plaintext, the empty string too, decrypt of what encrypt
\* returned, with the same key, gives exactly the plaintext, and the envelope
\* is the tag byte 2, then the 12 bytes of the nonce, then the sealed text.
C15_RoundTrip ==
    last.op = "encrypt" =>
        LET data == B64Decode(last.ret.val)
        IN /\ B64Valid(last.ret.val)
           /\ Len(data) > 1 + NONCE_LEN
           /\ data[1] = 2
           /\ \A i \in 1..NONCE_LEN : data[i + 1] = last.nonce[i]
           /\ Len(last.nonce) = 12
           /\ \A passphrase \in Passphrases :
                decrypt(last.ret.val, last.key, passphrase) = Ok(last.plaintext)

\* C15 witness: the empty string was encrypted and decrypts to itself.
C15_Witness ==
    /\ last.op = "encrypt"
    /\ last.plaintext = ""
    /\ decrypt(last.ret.val, last.key, Passphrase) = Ok("")

\* The three failures C16 tells apart.
AuthenticationError == Err("Decryption failed - invalid key or corrupted data")
UnknownFormatError == Err("Unknown encryption format version")
NotTextError == Err("Decrypted data is not valid UTF-8")

C17_Dispatch ==
    (last.op = "decrypt" /\ B64Valid(last.ciphertext)) =>
        LET data == B64Decode(last.ciphertext)
        IN IF data = <<>>
           THEN last.ret = Err("Empty ciphertext") /\ last.path = "none"
           ELSE CASE data[1] = 2 ->
                       /\ last.path = "current"
                       /\ last.ret = decrypt_v2(SubSeq(data, 2, Len(data)), last.key)
                  [] data[1] = 1 ->
                       /\ last.path = "legacy"
                       /\ last.ret = decrypt_legacy(last.ciphertext, last.passphrase)
                  [] data[1] \notin {1, 2} /\ data[1] = AGE_HEADER ->
                       /\ last.path = "legacy"
                       /\ last.ret = decrypt_legacy(last.ciphertext, last.passphrase)
                  [] OTHER ->
                       /\ last.path = "unknown"
                       /\ last.ret = UnknownFormatError

\* C17 witness: an envelope with leading byte 3 and the age header behind it
\* was refused as unknown.
C17_Witness ==
    /\ last.op = "decrypt"
    /\ last.ciphertext = B64Encode(<<UNKNOWN_TAG>> \o AgeBlob(Passphrase, "v1"))
    /\ last.passphrase = Passphrase
    /\ last.ret = UnknownFormatError

\* C18: a legacy envelope of a plaintext, tagged with the byte 1 or untagged,
\* decrypted with the passphrase it was written under, gives the plaintext:
\* what a current-format envelope of it gives under its master key.
C18_LegacyEquivalence ==
    last.op = "decrypt" =>
        \A passphrase \in Passphrases, plaintext \in CryptoPlaintexts :
            (/\ last.passphrase = passphrase
             /\ last.ciphertext \in {UntaggedLegacy(passphrase, plaintext),
                                     TaggedLegacy(passphrase, plaintext)}) =>
                /\ last.ret = Ok(plaintext)
                /\ \A nonce \in Nonces :
                     last.ret = decrypt(encrypt(plaintext, last.key, nonce),
                                        last.key, passphrase)

\* C19: a run of migrate that succeeds leaves the plaintext get returns
\* unchanged for every identity, and a run right after a successful run reports
\* 0 migrated, counts every row as already current, and writes nothing.
C19_MigrateIdempotent ==
    [][(last'.op = "migrate" /\ last'.ret.ok) =>
          /\ \A id \in Identities : get(secrets', id) = get(secrets, id)
          /\ history' = history
          /\ metadata' = metadata
          /\ (last.op = "migrate" /\ last.ret.ok) =>
                /\ secrets' = secrets
                /\ last'.ret.val =
                     [migrated |-> 0, already_new |-> Cardinality(secrets)]]_vars

\* C19 witness: the row of the earlier release, still at version 1, holds a
\* current-format envelope, another row exists, and the last call was a run
\* that found nothing to migrate.
C19_Witness ==
    /\ last.op = "migrate"
    /\ last.ret = Ok([migrated |-> 0, already_new |-> 2])
    /\ \E r \in secrets :
         /\ r.created_at = 0 /\ r.version = 1
         /\ r \notin NotCurrentFormat(secrets)
         /\ get(secrets, r.id) = Ok(Some("v1"))

\* The envelope the identity's row held before the first run.
OriginalEnvelope(id) ==
    (CHOOSE c \in committed : c.id = id).encrypted_value

C21_MigrateSkipsDamaged ==
    (pc = "idle" /\ last.op = "migrate" /\ last.ret # Err("stopped")) =>
        \A r \in NotCurrentFormat(secrets) : ~Decryptable(r)

\* C22: migrate changes nothing but the envelope of rows that were not in the
\* current format: history, metadata, the number of rows, every row's identity,
\* version, description, created_at and updated_at, and every row already in the
\* current format stay as they were.
C22_MigrateFrame ==
    [][last'.op = "migrate" =>
          /\ history' = history
          /\ metadata' = metadata
          /\ Cardinality(secrets') = Cardinality(secrets)
          /\ \A r \in secrets :
                /\ Present(secrets', r.id)
                /\ Row(secrets', r.id) =
                     [r EXCEPT !.encrypted_value = Row(secrets', r.id).encrypted_value]
                /\ r \notin NotCurrentFormat(secrets) => r \in secrets']_vars

\* C22 witness: a run has migrated the row of the earlier release in a store
\* that also holds a current-format row and a history entry.
C22_Witness ==
    /\ last.op = "migrate"
    /\ last.ret = Ok([migrated |-> 1, already_new |-> 1])
    /\ history # <<>>
    /\ NotCurrentFormat(secrets) = {}

\* The identity a bundled secret is imported under.
BundledId(b, i) == <<b.project, b.environment, b.secrets[i].key>>

\* C23: a bundle exported by a store that was initialized on its own, with its
\* own salt and the same passphrase, imports with success, and afterwards get
\* returns for every bundled key the plaintext it had in the store that wrote
\* the bundle, be the bundled envelope legacy or current.
C23_CrossStoreImport ==
    [][\A b \in SourceBundles : \A nonces \in [1..Len(b.secrets) -> Nonces] :
          (last'.op = "import" /\ Import(b, nonces)) =>
             /\ last'.ret.ok
             /\ \A i \in 1..Len(b.secrets) :
                   get(secrets', BundledId(b, i)) =
                      Ok(Some(StoredPlaintext(b.secrets[i].key)))]_vars

\* C24: import of a bundle whose token does not verify under the store's
\* passphrase fails with the mismatch error, calls decrypt for no secret and
\* leaves current entries, history and metadata as they were.
C24_ImportMismatch ==
    [][\A b \in ImportFiles : \A nonces \in [1..Len(b.secrets) -> Nonces] :
          (/\ last'.op = "import"
           /\ Import(b, nonces)
           /\ ~verify_passphrase(Passphrase, b.passphrase_verification)) =>
             /\ last'.ret = Err("Bundle was encrypted with a different passphrase")
             /\ last'.decrypted = 0
             /\ secrets' = secrets
             /\ history' = history
             /\ metadata' = metadata]_vars

\* C24 witness: the import of a foreign bundle has been refused in a store
\* that holds a current entry and a history entry.
C24_Witness ==
    /\ last.op = "import"
    /\ last.ret = Err("Bundle was encrypted with a different passphrase")
    /\ secrets # {}
    /\ history # <<>>

\* C25: a successful import returns the number of bundled secrets, and for
\* every bundled key the current entry decrypts to the bundled plaintext, is in
\* the current format, and is at version 1 if the identity was absent, at N + 1
\* with version N archived if it was present at N, whatever version the bundle
\* gives.
C25_ImportResult ==
    [][\A b \in ImportFiles : \A nonces \in [1..Len(b.secrets) -> Nonces] :
          (last'.op = "import" /\ Import(b, nonces) /\ last'.ret.ok) =>
             /\ last'.ret = Ok(Len(b.secrets))
             /\ \A i \in 1..Len(b.secrets) :
                   LET id == BundledId(b, i)
                   IN /\ Present(secrets', id)
                      /\ get(secrets', id) =
                           Ok(Some(decrypt(b.secrets[i].encrypted_value,
                                           SessionKey, Passphrase).val))
                      /\ Row(secrets', id) \notin NotCurrentFormat(secrets')
                      /\ IF Present(secrets, id)
                         THEN /\ Row(secrets', id).version =
                                    Row(secrets, id).version + 1
                              /\ \E h \in Len(history) + 1..Len(history') :
                                    /\ history'[h].id = id
                                    /\ history'[h].version = Row(secrets, id).version
                                    /\ history'[h].encrypted_value =
                                          Row(secrets, id).encrypted_value
                         ELSE Row(secrets', id).version = 1]_vars

\* C25 witness: a bundle of two secrets at version 3 has been imported into a
\* store that held K1 at version 1: K1 is at version 2, K2 at version 1.
C25_Witness ==
    /\ last.op = "import"
    /\ last.ret = Ok(2)
    /\ Present(secrets, <<"api", "prod", "K1">>)
    /\ Row(secrets, <<"api", "prod", "K1">>).version = 2
    /\ Present(secrets, <<"api", "prod", "K2">>)
    /\ Row(secrets, <<"api", "prod", "K2">>).version = 1
    /\ NotCurrentFormat(secrets) = {}

\* C26: an import that returns an error has written none of the bundle's
\* secrets: current entries and history are as they were before the call.
C26_ImportAllOrNothing ==
    [][(last'.op = "import" /\ ~last'.ret.ok) =>
          secrets' = secrets /\ history' = history]_vars

\* C27: import of a bundle whose version field is not 1 returns an error and
\* writes nothing.
C27_ImportChecksVersion ==
    [][\A b \in ImportFiles : \A nonces \in [1..Len(b.secrets) -> Nonces] :
          (last'.op = "import" /\ Import(b, nonces) /\ b.version # 1) =>
             /\ ~last'.ret.ok
             /\ secrets' = secrets
             /\ history' = history]_vars

\* The current rows of (project, environment).
Scoped(tbl, project, environment) ==
    {r \in tbl : r.id[1] = project /\ r.id[2] = environment}

\* C28: export(project, environment) returns exactly the current entries of that
\* project and environment, in ascending order of key, each with the stored
\* envelope, description and current version, and the store's verification
\* token; no history entry and no entry of another environment is in it, and
\* the store is as it was.
C28_ExportFrame ==
    [][last'.op = "export" =>
          LET b == bundle'[1]
              rows == Scoped(secrets, last'.project, last'.environment)
          IN /\ bundle' # None
             /\ b.project = last'.project
             /\ b.environment = last'.environment
             /\ b.passphrase_verification = metadata["passphrase_verification"]
             /\ Len(b.secrets) = Cardinality(rows)
             /\ \A i \in 1..Len(b.secrets) :
                   \E r \in rows :
                      /\ r.id[3] = b.secrets[i].key
                      /\ r.encrypted_value = b.secrets[i].encrypted_value
                      /\ r.description = b.secrets[i].description
                      /\ r.version = b.secrets[i].version
             /\ \A i, j \in 1..Len(b.secrets) :
                   i < j => StrRank(b.secrets[i].key) < StrRank(b.secrets[j].key)
             /\ secrets' = secrets
             /\ history' = history
             /\ metadata' = metadata]_vars

\* C28 witness: prod has been exported with its two entries from a store that
\* also holds a dev entry.
C28_Witness ==
    /\ last.op = "export"
    /\ last.environment = "prod"
    /\ bundle # None
    /\ Len(bundle[1].secrets) = 2
    /\ Present(secrets, DevId)

\* C29: the metadata of a store holds the salt, the verification token and the
\* schema version, whatever operation has run, so that migrate finds the salt
\* in every store init created.
C29_MetadataHoldsSalt ==
    /\ DOMAIN metadata = {"encryption_salt", "passphrase_verification", "schema_version"}
    /\ verify_passphrase(Passphrase, metadata["passphrase_verification"])
    /\ last.op = "migrate" => last.ret # Err("no encryption_salt")

\* The envelopes of the store: base64 of the tag 2, a nonce and the sealed box
\* under the store's key, or base64 of an age file under its passphrase.
StoreEnvelopes ==
    {B64Encode(<<CRYPTO_VERSION>> \o nonce \o Seal(SessionKey, nonce, pt)) :
        pt \in Plaintexts, nonce \in Nonces}
        \cup {B64Encode(AgeBlob(Passphrase, pt)) : pt \in Plaintexts}

\* C30: the value column of every current row, of every history entry and of
\* every bundled secret is an envelope, never a plaintext; rows, history
\* entries, bundles and metadata have no other column that could hold a value,
\* the passphrase or the key: metadata holds the token (an encryption of the
\* fixed verification text), the schema version and at most the salt.
C30_OnlyEnvelopesStored ==
    /\ \A r \in secrets :
          /\ r.encrypted_value \in StoreEnvelopes
          /\ DOMAIN r = {"id", "encrypted_value", "description", "created_at",
                         "updated_at", "version"}
          /\ r.description \in {None} \cup {Some(d) : d \in Descriptions}
    /\ \A h \in 1..Len(history) :
          /\ history[h].encrypted_value \in StoreEnvelopes
          /\ DOMAIN history[h] = {"id", "encrypted_value", "version", "created_at",
                                  "deleted_at"}
    /\ bundle # None =>
          /\ DOMAIN bundle[1] = {"version", "project", "environment",
                                 "passphrase_verification", "exported_at", "secrets"}
          /\ bundle[1].passphrase_verification = derive_verification(Passphrase)
          /\ \A i \in 1..Len(bundle[1].secrets) :
                /\ bundle[1].secrets[i].encrypted_value \in StoreEnvelopes
                /\ DOMAIN bundle[1].secrets[i] =
                      {"key", "encrypted_value", "description", "version"}
    /\ DOMAIN metadata \subseteq
          {"encryption_salt", "passphrase_verification", "schema_version"}
    /\ metadata["passphrase_verification"] = derive_verification(Passphrase)
    /\ metadata["schema_version"] = SCHEMA_VERSION
    /\ "encryption_salt" \in DOMAIN metadata =>
          metadata["encryption_salt"] = B64Encode(StoreSalt)

\* C30 witness: set has written a current row and archived one, and export has
\* written a bundle with a secret.
C30_Witness ==
    /\ secrets # {}
    /\ history # <<>>
    /\ bundle # None
    /\ Len(bundle[1].secrets) >= 1
    /\ \E r \in secrets : r.version >= 2

\* C31: whatever operations have run (init, set, delete, export, import,
\* migrate), get succeeds for every identity that has a current entry, on a
\* store opened with the same passphrase.
C31_ReadableAfterSuccess ==
    \A r \in secrets :
        /\ get(secrets, r.id).ok
        /\ get(secrets, r.id) # Ok(None)

\* C31 witness: migrate has re-encrypted the row of the earlier release and
\* reported success, next to a row written by set or import; both are read.
C31_Witness ==
    /\ last.op = "migrate"
    /\ last.ret.ok
    /\ last.ret.val.migrated = 1
    /\ Cardinality(secrets) = 2
    /\ \A r \in secrets : get(secrets, r.id).ok

\* C32: get returns not found exactly when the identity has no current entry,
\* a failed query is reported as an error, and set takes the insert branch
\* only when the identity has no current entry.
C32_NotFoundIffAbsent ==
    /\ last.op = "get" =>
          /\ last.ret = Ok(None) <=> ~Present(secrets, last.id)
          /\ last.failed => ~last.ret.ok
    /\ last.op = "set" => (last.path = "insert" => ~last.existed)

\* The n entries of the identity that were archived last.
LastArchived(hist, id, n) ==
    {hist[i] : i \in {j \in HistoryIdx(hist, id) :
                        Cardinality({k \in HistoryIdx(hist, id) : k > j}) < n}}

\* C33: history(identity, limit) returns min(limit, number of the identity's
\* history entries) entries of that identity, in non-increasing order of
\* version, and they are the entries archived last, also after a delete and
\* recreate cycle.
C33_HistoryMostRecent ==
    last.op = "history" =>
        LET e == last.entries
            total == Cardinality(HistoryIdx(history, last.id))
            n == IF last.limit < total THEN last.limit ELSE total
        IN /\ Len(e) = n
           /\ \A k \in 1..Len(e) : e[k].id = last.id
           /\ \A a, b \in 1..Len(e) : a < b => e[a].version >= e[b].version
           /\ {e[k] : k \in 1..Len(e)} = LastArchived(history, last.id, n)

\* C36: the version the history command prints for the live head is the
\* version of the current entry, for every limit and after delete and recreate.
C36_HeadVersion ==
    (last.op = "history" /\ last.current # Ok(None)) =>
        last.current_version = Row(secrets, last.id).version

\* C34: when a delete by one process and a set by another process on the same
\* present identity have both returned, under every interleaving, every
\* envelope a successful set committed for the identity is the current one or
\* is in the identity's history.
C34_DeleteArchivesWhatItRemoves ==
    (/\ \A p \in Procs : procs[p].pc = "done"
     /\ procs[Deleter].id = procs[Setter].id
     /\ procs[Setter].existing # None
     /\ procs[Setter].ret.ok) =>
        \A c \in committed :
            c.id = procs[Setter].id =>
                \/ \E r \in secrets :
                     r.id = c.id /\ r.encrypted_value = c.encrypted_value
                \/ \E i \in HistoryIdx(history, c.id) :
                     history[i].encrypted_value = c.encrypted_value

\* C35: when a run of migrate has ended and the set of another process on a
\* row that was in legacy format has returned, get gives the value of the set
\* and the current row is at the version the set wrote.
C35_MigrateKeepsNewerSet ==
    (/\ pc = "idle"
     /\ procs[Setter].pc = "done"
     /\ procs[Setter].ret.ok
     /\ procs[Setter].existing # None) =>
        /\ get(secrets, procs[Setter].id) = Ok(Some(procs[Setter].value))
        /\ Row(secrets, procs[Setter].id).version = procs[Setter].existing[1] + 1

\* The rows and history entries of the identities other than id.
OtherRows(tbl, id) == {r \in tbl : r.id # id}
OtherHistory(hist, id) == SelectSeq(hist, LAMBDA h : h.id # id)

\* C37: set on a present identity keeps created_at, sets updated_at to the time
\* of the call and the description to the one supplied (none clears it), and
\* archives the superseded version with the superseded row's updated_at as
\* created_at; set and delete leave the rows and history entries of every
\* other identity as they were.
C37_SetFrame ==
    [][/\ \A id \in Identities, value \in Plaintexts,
             description \in GivenDescriptions :
             (/\ last'.op = "set"
              /\ Set(id, value, description, [i \in 1..NONCE_LEN |-> 0])) =>
                /\ OtherRows(secrets', id) = OtherRows(secrets, id)
                /\ OtherHistory(history', id) = OtherHistory(history, id)
                /\ Present(secrets, id) =>
                      /\ Row(secrets', id).created_at = Row(secrets, id).created_at
                      /\ Row(secrets', id).updated_at = clock
                      /\ Row(secrets', id).description = description
                      /\ history' = Append(history,
                            [id |-> id,
                             encrypted_value |-> Row(secrets, id).encrypted_value,
                             version |-> Row(secrets, id).version,
                             created_at |-> Row(secrets, id).updated_at,
                             deleted_at |-> None])
       /\ last'.op = "delete" =>
             /\ OtherRows(secrets', last'.id) = OtherRows(secrets, last'.id)
             /\ OtherHistory(history', last'.id) = OtherHistory(history, last'.id)]_vars

\* C37 witness: a described row has been set again without description next
\* to a described row of another identity: it is at version 2, created before
\* it was updated, and has no description.
C37_Witness ==
    /\ last.op = "set"
    /\ Row(secrets, last.id).version = 2
    /\ Row(secrets, last.id).description = None
    /\ Row(secrets, last.id).created_at < Row(secrets, last.id).updated_at
    /\ Len(history) = 1
    /\ history[1].created_at = Row(secrets, last.id).created_at
    /\ \E r \in secrets : r.id # last.id /\ r.description = Some("d1")

\* The character c occurs in s.
Occurs(s, c) == \E i \in 1..Len(s) : s[i] = c

\* C39: for a line KEY ':' VALUE whose KEY is not empty and has no blank,
\* parse_line returns KEY and VALUE trimmed, whatever VALUE is, also when it
\* contains '=' or ':'.
C39_HerokuLine ==
    last.op = "parse_line" =>
        \A i \in 1..Len(last.line) :
            LET key == SubSeq(last.line, 1, i - 1)
                value == SubSeq(last.line, i + 1, Len(last.line))
            IN (/\ last.line[i] = ":"
                /\ key # <<>>
                /\ \A c \in {" ", "=", ":", "#", "\"", "'"} : ~Occurs(key, c)) =>
                  last.ret = Some(<<key, Trim(value)>>)

\* C40: a line KEY '=' VALUE, with or without 'export ' before it, is split at
\* the first '=': parse_line returns KEY trimmed and VALUE trimmed and freed of
\* one pair of matching quotes, an empty VALUE included; it returns None for a
\* blank line, a line starting with '#' and a line whose KEY is empty.
C40_DotenvLine ==
    last.op = "parse_line" =>
        LET trimmed == Trim(last.line)
            line == IF StripPrefix(trimmed, ExportPrefix) # None
                    THEN StripPrefix(trimmed, ExportPrefix)[1] ELSE trimmed
        IN /\ trimmed = <<>> => last.ret = None
           /\ (trimmed # <<>> /\ Head(trimmed) = "#") => last.ret = None
           /\ (trimmed # <<>> /\ Head(trimmed) # "#" /\ Occurs(line, "=")) =>
                 LET i == CHOOSE j \in 1..Len(line) :
                              line[j] = "=" /\ ~Occurs(SubSeq(line, 1, j - 1), "=")
                     key == Trim(SubSeq(line, 1, i - 1))
                     value == Trim(SubSeq(line, i + 1, Len(line)))
                     quoted(q) == /\ Len(value) >= 2
                                  /\ value[1] = q
                                  /\ value[Len(value)] = q
                 IN IF key = <<>> THEN last.ret = None
                    ELSE last.ret =
                           Some(<<key,
                                  IF quoted("\"") \/ quoted("'")
                                  THEN SubSeq(value, 2, Len(value) - 1)
                                  ELSE value>>)

\* C38: after any sequence of the set, import-env and import commands, every
\* current entry decrypts to a non-empty value.
C38_NoEmptyPlaintext ==
    \A r \in secrets : get(secrets, r.id) # Ok(Some(""))

====
